---- MODULE Spec2Model ----
(***************************************************************************)
(* Home Assistant integration "wow_blizzard": the API client (token cache  *)
(* and request gateway, api_client.py) and the poll coordinator            *)
(* (WoWDataUpdateCoordinator, sensor.py).                                  *)
(*                                                                         *)
(* Python values are represented as follows.  A dict is a function with a  *)
(* set of strings as domain; the empty dict {} is the empty function.      *)
(* None is the string "None" where the other values are strings and the    *)
(* empty tuple where they are numbers or dicts.  Times are seconds.        *)
(***************************************************************************)
EXTENDS Integers, Sequences, FiniteSets, TLC

(***************************************************************************)
(* Bounds of the model.                                                    *)
(***************************************************************************)
\* longest list of tracked characters
MaxChars == 2
\* most faults of one behaviour: failed token exchanges, answers to a GET that
\* an action does not name free of charge, and exceptions of a cycle
MaxFaults == 1
\* last clock reading that is told apart; later readings read MaxTime
MaxTime == 60
\* GETs of one caller-visible request that are counted; more count as MaxGets
MaxGets == 3
\* most difficulty modes of the current expansion in an encounter document
MaxModes == 2
\* most best runs in a Mythic+ season document
MaxRuns == 2
\* most equipped items in an equipment document
MaxItems == 3
\* responses the limiter model counts from zero and beyond the limit
MaxBurst == 2
\* the clock of the limiter model stops here
MaxClock == 3720
\* the time that passes between two calls in the limiter model
IdleStep == 1800
\* completed-boss counts of a mode
CompletedCounts == {1, 3}
\* keystone levels of a run
KeystoneLevelValues == {5, 10}

(***************************************************************************)
(* Program constants.                                                      *)
(***************************************************************************)
RATE_WINDOW == 3600
RATE_LIMIT == 35000
RATE_SLEEP == 60
TOKEN_MARGIN == 60
DEFAULT_EXPIRES_IN == 3600
RETRY_SLEEP == 30
TIMED_FACTOR == 125
UNTIMED_FACTOR == 100

\* granularity of the clock: the time one HTTP round trip may take
TimeStep == 30

(***************************************************************************)
(* Python helpers.                                                         *)
(***************************************************************************)
EmptyDict == [k \in {} |-> 0]

NoneStr == "None"

NoneVal == <<>>

\* dict.get(key, default)
Get(d, k, default) == IF k \in DOMAIN d THEN d[k] ELSE default

\* {**a, **b}: the later dict wins on a shared key
Merge(a, b) == b @@ a

\* truthiness of a dict or list
Truthy(d) == DOMAIN d # {}

Min(a, b) == IF a < b THEN a ELSE b

Max(a, b) == IF a > b THEN a ELSE b

\* round(total / count) of Python 3: to nearest, ties to even
PyRound(total, count) ==
    LET q == total \div count
        r == total % count
    IN  IF 2 * r < count THEN q
        ELSE IF 2 * r > count THEN q + 1
        ELSE IF q % 2 = 0 THEN q ELSE q + 1

RECURSIVE SumSeq(_)
SumSeq(s) == IF s = <<>> THEN 0 ELSE Head(s) + SumSeq(Tail(s))

RECURSIVE MaxSeq(_)
MaxSeq(s) == IF Len(s) = 1 THEN s[1] ELSE Max(Head(s), MaxSeq(Tail(s)))

RECURSIVE Flatten(_)
Flatten(ss) == IF ss = <<>> THEN <<>> ELSE Head(ss) \o Flatten(Tail(ss))

\* the set of the elements of a sequence
Range(seq) == {seq[i] : i \in 1..Len(seq)}

(***************************************************************************)
(* const.py: the declared metric keys of each feature category.            *)
(***************************************************************************)
CONF_ENABLE_SERVER_STATUS == "enable_server_status"

CONF_ENABLE_PVP == "enable_pvp"

CONF_ENABLE_RAIDS == "enable_raids"

CONF_ENABLE_MYTHIC_PLUS == "enable_mythic_plus"

FeatureFlags ==
    {CONF_ENABLE_SERVER_STATUS, CONF_ENABLE_PVP, CONF_ENABLE_RAIDS,
     CONF_ENABLE_MYTHIC_PLUS}

BASIC_SENSOR_TYPES ==
    {"character_level", "character_item_level", "guild_name",
     "achievement_points", "character_money"}

SERVER_SENSOR_TYPES == {"realm_status", "realm_population", "realm_queue"}

PVP_SENSOR_TYPES ==
    {"pvp_2v2_rating", "pvp_3v3_rating", "pvp_rbg_rating", "pvp_honor_level",
     "pvp_wins_season"}

RAID_SENSOR_TYPES ==
    {"raid_progress_lfr", "raid_progress_normal", "raid_progress_heroic",
     "raid_progress_mythic", "raid_kills_total"}

MYTHICPLUS_SENSOR_TYPES ==
    {"mythicplus_score", "mythicplus_best_run", "mythicplus_runs_completed",
     "mythicplus_runs_timed", "mythicplus_weekly_best"}

\* PVP_BRACKETS.items(), in the order of the dict literal
PVP_BRACKETS ==
    << <<"ARENA_2v2", "2v2">>, <<"ARENA_3v3", "3v3">>,
       <<"BATTLEGROUNDS", "rbg">> >>

CURRENT_EXPANSION_NAME == "The War Within"

(***************************************************************************)
(* The remote API: what each resource answers with status 200.  The game   *)
(* data are fixed per character and realm.                                 *)
(***************************************************************************)
Realms == {"r1", "r2"}

Names == {"a", "b"}

ProfileDoc(realm, name) ==
    IF name = "a"
    THEN [name |-> "A", level |-> 80, guild |-> [name |-> "Guild"],
          last_login_timestamp |-> "1700000000",
          character_class |-> [name |-> "Mage"], race |-> [name |-> "Human"],
          realm |-> [name |-> realm], faction |-> [name |-> "Alliance"],
          gender |-> [name |-> "Female"], active_spec |-> [name |-> "Frost"]]
    ELSE [name |-> "B", level |-> 70,
          character_class |-> [name |-> "Druid"], race |-> [name |-> "Troll"],
          realm |-> [name |-> realm], faction |-> [name |-> "Horde"]]

EquipmentDoc(realm, name) ==
    IF name = "a"
    THEN [equipped_items |->
            << [item_level |-> 200], [item_level |-> 211], [name |-> "Tabard"] >>]
    ELSE [equipped_items |-> << [name |-> "Shirt"] >>]

AchievementsDoc(realm, name) ==
    IF name = "a" THEN [total_points |-> 1000] ELSE [total_points |-> 20]

PvpSummaryDoc(realm, name) ==
    IF name = "a" THEN [honor_level |-> 5] ELSE [pvp_map_statistics |-> <<>>]

PvpBracketDoc(realm, name, bracket) ==
    IF name = "a"
    THEN CASE bracket = "2v2" ->
                [rating |-> 1500, season_match_statistics |-> [won |-> 3]]
           [] bracket = "3v3" ->
                [rating |-> 1800, season_match_statistics |-> [won |-> 4]]
           [] OTHER -> [season_match_statistics |-> [won |-> 7]]
    ELSE [rating |-> 1000]

EncountersDoc(realm, name) ==
    IF name = "a"
    THEN [expansions |->
            << [expansion |-> [name |-> "The War Within"],
                instances |->
                  << [modes |->
                        << [difficulty |-> [name |-> "Heroic"],
                            progress |-> [completed_count |-> 3, total_count |-> 8]],
                           [difficulty |-> [name |-> "Mythic"],
                            progress |-> [completed_count |-> 1, total_count |-> 8]],
                           [difficulty |-> [name |-> "Timewalking"],
                            progress |-> [completed_count |-> 2, total_count |-> 8]] >>] >>],
               [expansion |-> [name |-> "Dragonflight"],
                instances |->
                  << [modes |->
                        << [difficulty |-> [name |-> "Normal"],
                            progress |-> [completed_count |-> 9, total_count |-> 9]] >>] >>] >>]
    ELSE [character |-> [name |-> "B"]]

MythicProfileDoc(realm, name) ==
    IF name = "a"
    THEN [current_period |->
            [best_runs |-> << [keystone_level |-> 7], [keystone_level |-> 9] >>]]
    ELSE [current_period |-> [period |-> [id |-> 1]]]

MythicSeasonDoc(realm, name) ==
    IF name = "a"
    THEN [best_runs |->
            << [keystone_level |-> 10, is_completed_within_time |-> TRUE],
               [keystone_level |-> 8, is_completed_within_time |-> FALSE] >>]
    ELSE [best_runs |-> <<>>, season |-> [id |-> 12]]

RealmDoc(realm) ==
    IF realm = "r1"
    THEN [id |-> 1, status |-> [name |-> "Up"], population |-> [name |-> "High"],
          timezone |-> "Europe/Paris", locale |-> "enGB"]
    ELSE [status |-> [name |-> "Down"]]

ConnectedRealmDoc(realm) == [has_queue |-> TRUE, queue_time |-> 5]

\* the realm index of a region: with realms, empty, or without the realms key
RealmIndexDoc(region) ==
    CASE region = "eu" -> [realms |-> <<[name |-> "r1"], [name |-> "r2"]>>]
      [] region = "us" -> EmptyDict
      [] OTHER -> [code |-> 403]

\* the resources the fetchers name, and the 200 payload of each
Resources ==
    {"profile", "equipment", "achievements", "pvp-summary", "pvp-bracket-2v2",
     "pvp-bracket-3v3", "pvp-bracket-rbg", "encounters-raids", "mythic-profile",
     "mythic-season", "realm", "connected-realm"}

Payload(resource, realm, name) ==
    CASE resource = "profile" -> ProfileDoc(realm, name)
      [] resource = "equipment" -> EquipmentDoc(realm, name)
      [] resource = "achievements" -> AchievementsDoc(realm, name)
      [] resource = "pvp-summary" -> PvpSummaryDoc(realm, name)
      [] resource = "pvp-bracket-2v2" -> PvpBracketDoc(realm, name, "2v2")
      [] resource = "pvp-bracket-3v3" -> PvpBracketDoc(realm, name, "3v3")
      [] resource = "pvp-bracket-rbg" -> PvpBracketDoc(realm, name, "rbg")
      [] resource = "encounters-raids" -> EncountersDoc(realm, name)
      [] resource = "mythic-profile" -> MythicProfileDoc(realm, name)
      [] resource = "mythic-season" -> MythicSeasonDoc(realm, name)
      [] resource = "realm" -> RealmDoc(realm)
      [] resource = "realm-index" -> RealmIndexDoc(realm)
      [] OTHER -> ConnectedRealmDoc(realm)

(***************************************************************************)
(* sensor.py: the extraction part of each fetch helper, as a function of   *)
(* the documents the helper fetched.                                       *)
(***************************************************************************)
\* d.get(key, {}).get("name")
SubName(d, key) == Get(Get(d, key, EmptyDict), "name", NoneStr)

\* an average over every equipped item, with or without an item level
ItemLevelAllItems(equipment) ==
    LET items == Get(equipment, "equipped_items", <<>>)
        has == SelectSeq(items, LAMBDA item : "item_level" \in DOMAIN item)
        total_item_level == SumSeq([i \in 1..Len(has) |-> has[i]["item_level"]])
    IN  IF items # <<>> /\ Len(has) > 0
        THEN PyRound(total_item_level, Len(items))
        ELSE 0

\* average item level, sensor.py 81-90
ItemLevel(equipment) ==
    LET items == Get(equipment, "equipped_items", <<>>)
        has == SelectSeq(items, LAMBDA item : "item_level" \in DOMAIN item)
        total_item_level == SumSeq([i \in 1..Len(has) |-> has[i]["item_level"]])
        item_count == Len(has)
    IN  IF items # <<>> /\ item_count > 0
        THEN PyRound(total_item_level, item_count)
        ELSE 0

\* profile["guild"]["name"] raises KeyError when the guild carries no name
BasicRaises(profile) ==
    LET guild == Get(profile, "guild", EmptyDict)
    IN  Truthy(guild) /\ "name" \notin DOMAIN guild

\* the dict _fetch_basic_character_data returns, sensor.py 92-112
BasicData(profile, equipment, achievements) ==
    [character_level |-> Get(profile, "level", 0),
     character_item_level |-> ItemLevel(equipment),
     guild_name |-> IF Truthy(Get(profile, "guild", EmptyDict))
                    THEN profile["guild"]["name"]
                    ELSE NoneStr,
     achievement_points |-> Get(achievements, "total_points", 0),
     last_login_timestamp |-> Get(profile, "last_login_timestamp", NoneStr),
     character_class |-> SubName(profile, "character_class"),
     character_race |-> SubName(profile, "race"),
     realm |-> SubName(profile, "realm"),
     faction |-> SubName(profile, "faction"),
     gender |-> SubName(profile, "gender"),
     spec |-> SubName(profile, "active_spec")]

\* bracket documents stored under the name of the next bracket
AllPvpDataShifted(docs) ==
    << <<"summary", docs[1]>> >>
        \o [i \in 1..Len(PVP_BRACKETS) |->
               <<PVP_BRACKETS[(i % Len(PVP_BRACKETS)) + 1][2], docs[i + 1]>>]

\* get_all_pvp_data: the summary, then one document per bracket, in order
AllPvpData(docs) ==
    << <<"summary", docs[1]>> >>
        \o [i \in 1..Len(PVP_BRACKETS) |-> <<PVP_BRACKETS[i][2], docs[i + 1]>>]

\* the loop over pvp_data.items(), sensor.py 171-187
RECURSIVE PvpLoop(_, _)
PvpLoop(items, acc) ==
    IF items = <<>> THEN acc
    ELSE LET bracket == Head(items)[1]
             data == Head(items)[2]
         IN  IF bracket = "summary" THEN PvpLoop(Tail(items), acc)
             ELSE IF ~Truthy(data) \/ "rating" \notin DOMAIN data
             THEN PvpLoop(Tail(items), acc)
             ELSE LET rating == data["rating"]
                      season_wins ==
                          Get(Get(data, "season_match_statistics", EmptyDict), "won", 0)
                      counted == [acc EXCEPT !.pvp_wins_season = @ + season_wins]
                  IN  PvpLoop(Tail(items),
                              CASE bracket = "2v2" ->
                                     [counted EXCEPT !.pvp_2v2_rating = rating]
                                [] bracket = "3v3" ->
                                     [counted EXCEPT !.pvp_3v3_rating = rating]
                                [] bracket = "rbg" ->
                                     [counted EXCEPT !.pvp_rbg_rating = rating]
                                [] OTHER -> counted)

\* a helper that counts the wins of every bracket document
PvpDataAllWins(pvp_data) ==
    LET summary == pvp_data[1][2]
        honor_level == IF Truthy(summary) THEN Get(summary, "honor_level", 0) ELSE 0
        counted == PvpLoop(pvp_data,
                           [pvp_2v2_rating |-> 0, pvp_3v3_rating |-> 0,
                            pvp_rbg_rating |-> 0, pvp_honor_level |-> honor_level,
                            pvp_wins_season |-> 0])
    IN  [counted EXCEPT !.pvp_wins_season =
            SumSeq([i \in 1..(Len(pvp_data) - 1) |->
                      Get(Get(pvp_data[i + 1][2], "season_match_statistics",
                              EmptyDict), "won", 0)])]

\* the dict _fetch_pvp_data returns, sensor.py 160-195
PvpData(pvp_data) ==
    LET summary == pvp_data[1][2]
        honor_level == IF Truthy(summary) THEN Get(summary, "honor_level", 0) ELSE 0
    IN  PvpLoop(pvp_data,
                [pvp_2v2_rating |-> 0, pvp_3v3_rating |-> 0, pvp_rbg_rating |-> 0,
                 pvp_honor_level |-> honor_level, pvp_wins_season |-> 0])

\* difficulty names of the modes: the four raid tiers, upper case, a name
\* holding two keywords and a name holding none
DifficultyNames ==
    {"Raid Finder", "Normal", "Heroic", "Mythic", "MYTHIC", "Normal Heroic",
     "Timewalking"}

\* which of the tier keywords occur in difficulty.lower()
TierKeywords(difficulty) ==
    CASE difficulty = "Raid Finder" -> {"raid finder"}
      [] difficulty = "Normal" -> {"normal"}
      [] difficulty = "Heroic" -> {"heroic"}
      [] difficulty = "Mythic" -> {"mythic"}
      [] difficulty = "MYTHIC" -> {"mythic"}
      [] difficulty = "Normal Heroic" -> {"normal", "heroic"}
      [] OTHER -> {}

\* the modes of every expansion
RaidModesAnyExpansion(encounters) ==
    IF ~(Truthy(encounters) /\ "expansions" \in DOMAIN encounters) THEN <<>>
    ELSE LET instances ==
                 Flatten([i \in 1..Len(encounters["expansions"]) |->
                             Get(encounters["expansions"][i], "instances", <<>>)])
         IN  Flatten([i \in 1..Len(instances) |-> Get(instances[i], "modes", <<>>)])

\* the modes the loops of sensor.py 217-222 visit, in order
RaidModes(encounters) ==
    IF ~(Truthy(encounters) /\ "expansions" \in DOMAIN encounters) THEN <<>>
    ELSE LET current ==
                 SelectSeq(encounters["expansions"],
                           LAMBDA e : SubName(e, "expansion") = CURRENT_EXPANSION_NAME)
             instances ==
                 Flatten([i \in 1..Len(current) |->
                             Get(current[i], "instances", <<>>)])
         IN  Flatten([i \in 1..Len(instances) |-> Get(instances[i], "modes", <<>>)])

\* the body of the loop over modes, sensor.py 223-237
RECURSIVE RaidLoop(_, _)
RaidLoop(modes, acc) ==
    IF modes = <<>> THEN acc
    ELSE LET mode == Head(modes)
             difficulty == Get(Get(mode, "difficulty", EmptyDict), "name", "")
             completed == Get(Get(mode, "progress", EmptyDict), "completed_count", 0)
             kw == TierKeywords(difficulty)
             tiered ==
                 IF "raid finder" \in kw
                 THEN [acc EXCEPT !.raid_progress_lfr = @ + completed]
                 ELSE IF "normal" \in kw
                 THEN [acc EXCEPT !.raid_progress_normal = @ + completed]
                 ELSE IF "heroic" \in kw
                 THEN [acc EXCEPT !.raid_progress_heroic = @ + completed]
                 ELSE IF "mythic" \in kw
                 THEN [acc EXCEPT !.raid_progress_mythic = @ + completed]
                 ELSE acc
         IN  RaidLoop(Tail(modes), [tiered EXCEPT !.raid_kills_total = @ + completed])

\* a raid group that reports its total under the key of the PvP wins
RaidDataUnderPvpKey(encounters) ==
    LET r == RaidLoop(RaidModes(encounters),
                      [raid_progress_lfr |-> 0, raid_progress_normal |-> 0,
                       raid_progress_heroic |-> 0, raid_progress_mythic |-> 0,
                       raid_kills_total |-> 0])
    IN  [k \in (DOMAIN r \ {"raid_kills_total"}) \cup {"pvp_wins_season"} |->
            IF k = "pvp_wins_season" THEN r["raid_kills_total"] ELSE r[k]]

\* the dict _fetch_raid_data returns, sensor.py 209-245
RaidData(encounters) ==
    RaidLoop(RaidModes(encounters),
             [raid_progress_lfr |-> 0, raid_progress_normal |-> 0,
              raid_progress_heroic |-> 0, raid_progress_mythic |-> 0,
              raid_kills_total |-> 0])

KeystoneLevels(runs) == [i \in 1..Len(runs) |-> Get(runs[i], "keystone_level", 0)]

\* a helper that looks at the week only when the season has runs
MythicPlusDataSeasonGated(profile, season_data) ==
    LET best_runs == IF Truthy(season_data)
                     THEN Get(season_data, "best_runs", <<>>)
                     ELSE <<>>
        timed == SelectSeq(best_runs,
                           LAMBDA run : Get(run, "is_completed_within_time", FALSE))
        weekly_runs ==
            IF best_runs # <<>> /\ Truthy(profile) /\ "current_period" \in DOMAIN profile
            THEN Get(profile["current_period"], "best_runs", <<>>)
            ELSE <<>>
    IN  [mythicplus_score |->
             SumSeq([i \in 1..Len(best_runs) |->
                       Get(best_runs[i], "keystone_level", 0)
                         * (IF Get(best_runs[i], "is_completed_within_time", FALSE)
                            THEN TIMED_FACTOR ELSE UNTIMED_FACTOR)]),
         mythicplus_best_run |->
             IF best_runs # <<>> THEN MaxSeq(KeystoneLevels(best_runs)) ELSE 0,
         mythicplus_runs_completed |-> Len(best_runs),
         mythicplus_runs_timed |-> Len(timed),
         mythicplus_weekly_best |->
             IF weekly_runs # <<>> THEN MaxSeq(KeystoneLevels(weekly_runs)) ELSE 0]

\* the dict _fetch_mythicplus_data returns, sensor.py 260-295
MythicPlusData(profile, season_data) ==
    LET best_runs == IF Truthy(season_data)
                     THEN Get(season_data, "best_runs", <<>>)
                     ELSE <<>>
        timed == SelectSeq(best_runs,
                           LAMBDA run : Get(run, "is_completed_within_time", FALSE))
        weekly_runs ==
            IF Truthy(profile) /\ "current_period" \in DOMAIN profile
            THEN Get(profile["current_period"], "best_runs", <<>>)
            ELSE <<>>
    IN  [mythicplus_score |->
             SumSeq([i \in 1..Len(best_runs) |->
                       Get(best_runs[i], "keystone_level", 0)
                         * (IF Get(best_runs[i], "is_completed_within_time", FALSE)
                            THEN TIMED_FACTOR ELSE UNTIMED_FACTOR)]),
         mythicplus_best_run |->
             IF best_runs # <<>> THEN MaxSeq(KeystoneLevels(best_runs)) ELSE 0,
         mythicplus_runs_completed |-> Len(best_runs),
         mythicplus_runs_timed |-> Len(timed),
         mythicplus_weekly_best |->
             IF weekly_runs # <<>> THEN MaxSeq(KeystoneLevels(weekly_runs)) ELSE 0]

\* d.get(key, {}).get("name", "Unknown")
SubStatus(d, key) == Get(Get(d, key, EmptyDict), "name", "Unknown")

\* the dict _fetch_server_data returns, sensor.py 127-146
ServerData(realm_info, connected_realm) ==
    [realm_status |->
         IF Truthy(realm_info) THEN SubStatus(realm_info, "status") ELSE "Unknown",
     realm_population |->
         IF Truthy(realm_info) THEN SubStatus(realm_info, "population") ELSE "Unknown",
     realm_queue |->
         IF Truthy(connected_realm) /\ Get(connected_realm, "has_queue", FALSE)
         THEN Get(connected_realm, "queue_time", 0)
         ELSE 0,
     realm_timezone |-> Get(realm_info, "timezone", "Unknown"),
     realm_locale |-> Get(realm_info, "locale", "Unknown")]

(***************************************************************************)
(* State.                                                                  *)
(***************************************************************************)
VARIABLES
    characters,          \* coordinator.characters: list of tracked characters
    features,            \* coordinator.features: the four feature flags
    access_token,        \* client._access_token
    token_expires,       \* client._token_expires: <<>> (None) or <<time>>
    now,                 \* the clock, datetime.now()
    req,                 \* the _make_request call in progress
    cpc,                 \* where _async_update_data stands
    idx,                 \* index of the character being fetched
    cur_realm,           \* realm being fetched in the realm loop
    realms_todo,         \* realms the realm loop has not visited yet
    helper,              \* fetch helper in progress
    docs,                \* documents the helper in progress has received
    groups,              \* results of the helpers finished for this character
    all_data,            \* the local all_data of the cycle
    server_data,         \* the local server_data of the cycle
    data,                \* coordinator.data, the snapshot consumers read
    last_update_success, \* coordinator.last_update_success
    outcome,             \* how the last finished cycle ended
    last_returned,       \* history: what the last cycle that returned, returned
    faults,              \* history: degraded fetches and exceptions so far
    degraded,            \* history: the fetches of the cycle that gave no document
    issued,              \* history: the fetches the cycle has started, in order
    setup,               \* async_setup_entry of the integration and hass.data
    ext,                 \* the extraction part of a helper applied to documents
    flow,                \* the config flow (setup wizard) of config_flow.py
    limiter              \* the request counter of the client and a call under it

clientVars == <<access_token, token_expires, now>>

cycleVars ==
    <<cpc, idx, cur_realm, realms_todo, helper, docs, groups, all_data, server_data,
      degraded, issued>>

hostVars == <<data, last_update_success, outcome, last_returned>>

configVars == <<characters, features>>

vars == <<configVars, clientVars, req, cycleVars, hostVars, faults, setup, ext, flow,
         limiter>>

(***************************************************************************)
(* Configuration: what the config entry hands to the coordinator.          *)
(***************************************************************************)
\* one entry of CONF_CHARACTERS, config_flow.py 295-302
Character(realm, name) == [realm |-> realm, character_name |-> name]

CharKey(realm, name) == realm \o "-" \o name

\* the characters that exist, in the order the operator adds them
Roster == <<Character("r1", "a"), Character("r1", "b"), Character("r2", "a")>>

TrackedCharacters == {Roster[i] : i \in 1..Len(Roster)}

\* the sub-list of the roster at the positions of P
Pick(P) ==
    LET RECURSIVE Build(_)
        Build(i) == IF i > Len(Roster) THEN <<>>
                    ELSE IF i \in P THEN <<Roster[i]>> \o Build(i + 1)
                    ELSE Build(i + 1)
    IN  Build(1)

\* the character lists the setup wizard accepts: non-empty, no key twice
CharacterLists ==
    {Pick(P) : P \in {Q \in SUBSET (1..Len(Roster)) :
                         Q # {} /\ Cardinality(Q) <= MaxChars}}

\* realms taken from the first character only
RealmsOfFirst(cs) == {cs[1]["realm"]}

\* self.realms, sensor.py 65
RealmsOf(cs) == {cs[i]["realm"] : i \in 1..Len(cs)}

(***************************************************************************)
(* api_client.py: token cache and request gateway.                         *)
(***************************************************************************)
Tokens == {"t1", "t2"}

ExpiresIns == {90}

\* what the token endpoint may answer
TokenResponses ==
    {[status |-> 200, body |-> [access_token |-> t, expires_in |-> e]] :
        t \in Tokens, e \in ExpiresIns}
    \cup {[status |-> 200, body |-> [access_token |-> t]] : t \in Tokens}
    \cup {[status |-> 200, body |-> EmptyDict]}
    \cup {[status |-> 401, body |-> EmptyDict], [status |-> 0, body |-> EmptyDict]}

\* what the API may answer to a GET: a status with a JSON body, a status 200
\* whose body is no JSON, a timeout, any other transport error
GetResponses == {"200", "200-nojson", "404", "429", "500", "timeout", "neterr"}

IdleReq ==
    [pc |-> "idle", resource |-> "none", realm |-> "none", name |-> "none",
     bearer |-> NoneStr, token_body |-> EmptyDict, gets |-> 0, sleeps |-> 0,
     last |-> "none", result |-> EmptyDict, params |-> EmptyDict]

\* the config entries the operator created: entry id and entry.data[CONF_REGION]
Entries ==
    {[id |-> "e1", region |-> "eu"], [id |-> "e2", region |-> "us"],
     [id |-> "e3", region |-> "kr"]}

\* the test call has not finished
NoTest == [kind |-> "none", value |-> EmptyDict]

\* no entry is set up: hass.data has no entry data, no platform is forwarded
NoSetup ==
    [pc |-> "none", entry |-> "none", session |-> "none", test |-> NoTest,
     domain |-> {}, forwarded |-> {}]

\* no helper is being looked at on its own
NoExt == [pc |-> "none", kind |-> "none", input |-> <<>>, output |-> EmptyDict]

\* a config flow after __init__, config_flow.py 178-182: data = {},
\* characters = [], and the credentials form about to be shown
NoFlow ==
    [step |-> "user", pc |-> "form", data |-> EmptyDict, characters |-> <<>>,
     errors |-> "none", input |-> EmptyDict, session |-> "none",
     verdict |-> "none", message |-> "none", result |-> "none",
     validated |-> {}]

\* the counter after construction, api_client.py 46-47, and no call
NoLimiter ==
    [pc |-> "idle", request_count |-> 0, last_request_reset |-> 0, clock |-> 0,
     status |-> "none", at_send |-> 0, delayed |-> FALSE]

\* the namespace parameter each fetcher sets (the region suffix left out)
NamespaceOf(resource) ==
    IF resource \in {"realm", "realm-index", "connected-realm"} THEN "dynamic"
    ELSE "profile"

\* self.locale of the client, api_client.py 41
ClientLocale == "en_GB"

\* a fetcher calls _make_request(endpoint, params)
NewRequest(resource, realm, name) ==
    [IdleReq EXCEPT !.pc = "enter", !.resource = resource, !.realm = realm,
                    !.name = name,
                    !.params = [namespace |-> NamespaceOf(resource)]]

\* the test of _get_access_token, api_client.py 58-62
TokenCached ==
    /\ access_token # NoneStr
    /\ token_expires # NoneVal
    /\ now < token_expires[1]

\* the expiry without the safety margin
ExpiryNoMargin(body, at) == at + Get(body, "expires_in", DEFAULT_EXPIRES_IN)

\* api_client.py 78-79
ExpiryOf(body, at) == at + Get(body, "expires_in", DEFAULT_EXPIRES_IN) - TOKEN_MARGIN

\* the recursive call of line 133 is inside the try of its caller: whatever an
\* inner call raises, the frame above catches and turns into {}
InRetry(r) == r.sleeps > 0

\* how an exception of _get_access_token leaves _make_request
TokenFailure(r) ==
    IF InRetry(r)
    THEN [r EXCEPT !.pc = "returned", !.result = EmptyDict, !.last = "token-failed"]
    ELSE [r EXCEPT !.pc = "raised", !.result = EmptyDict, !.last = "token-failed"]

\* a request that keeps the bearer token of its first attempt
SendGetKeepingBearer(r, token) ==
    [r EXCEPT !.pc = "get",
              !.bearer = IF @ # NoneStr THEN @ ELSE token,
              !.gets = Min(@ + 1, MaxGets),
              !.params = IF "locale" \in DOMAIN @ THEN @
                         ELSE Merge(@, [locale |-> ClientLocale])]

\* the locale is added to params unless present, api_client.py 113-117, and
\* session.get(url, headers, params) is sent with this bearer token
SendGet(r, token) ==
    [r EXCEPT !.pc = "get", !.bearer = token, !.gets = Min(@ + 1, MaxGets),
              !.params = IF "locale" \in DOMAIN @ THEN @
                         ELSE Merge(@, [locale |-> ClientLocale])]

\* _make_request up to its first await on the network, api_client.py 101-120:
\* the cached token is used, or the token endpoint is asked
MakeRequestEnter ==
    /\ req.pc = "enter"
    /\ req' = IF TokenCached THEN SendGet(req, access_token)
              ELSE [req EXCEPT !.pc = "post"]
    /\ UNCHANGED <<limiter, flow, ext, setup, configVars, clientVars, cycleVars, hostVars, faults>>

\* a token exchange that forgets the cached credential when it fails
TokenResponseForgetting(responses) ==
    /\ req.pc = "post"
    /\ \E resp \in responses :
        IF resp.status = 200 /\ "access_token" \in DOMAIN resp.body
        THEN /\ access_token' = resp.body["access_token"]
             /\ token_expires' = <<ExpiryOf(resp.body, now)>>
             /\ req' = SendGet([req EXCEPT !.token_body = resp.body],
                                resp.body["access_token"])
             /\ UNCHANGED faults
        ELSE /\ faults < MaxFaults
             /\ faults' = faults + 1
             /\ req' = TokenFailure(req)
             /\ access_token' = NoneStr
             /\ token_expires' = NoneVal
    /\ UNCHANGED <<limiter, flow, ext, setup, configVars, now, cycleVars, hostVars>>

\* the token endpoint answers with one of responses, api_client.py 74-86: a
\* status 200 whose body carries a token is stored; any other answer raises.
\* On success _make_request goes on to send the GET
TokenResponseOf(responses) ==
    /\ req.pc = "post"
    /\ \E resp \in responses :
        IF resp.status = 200 /\ "access_token" \in DOMAIN resp.body
        THEN /\ access_token' = resp.body["access_token"]
             /\ token_expires' = <<ExpiryOf(resp.body, now)>>
             /\ req' = SendGet([req EXCEPT !.token_body = resp.body],
                                resp.body["access_token"])
             /\ UNCHANGED faults
        ELSE /\ faults < MaxFaults
             /\ faults' = faults + 1
             /\ req' = TokenFailure(req)
             /\ UNCHANGED <<access_token, token_expires>>
    /\ UNCHANGED <<limiter, flow, ext, setup, configVars, now, cycleVars, hostVars>>

TokenResponse == TokenResponseOf(TokenResponses)

\* the answers of a token endpoint that is down or rejects the credentials
FailingTokenResponses ==
    {resp \in TokenResponses :
        ~(resp.status = 200 /\ "access_token" \in DOMAIN resp.body)}

\* the token endpoint fails for as long as the outage lasts, api_client.py
\* 73-86: the exchange raises and nothing is stored
TokenOutage ==
    /\ req.pc = "post"
    /\ \E resp \in FailingTokenResponses : req' = TokenFailure(req)
    /\ UNCHANGED <<limiter, flow, ext, setup, configVars, clientVars, cycleVars, hostVars, faults>>

\* a status policy that raises on a missing resource
StatusPolicyRaising(r, kind) ==
    CASE kind = "200" ->
           [r EXCEPT !.pc = "returned", !.last = kind,
                     !.result = Payload(r.resource, r.realm, r.name)]
      [] kind = "429" -> [r EXCEPT !.pc = "sleep", !.last = kind]
      [] kind = "404" -> [r EXCEPT !.pc = "raised", !.last = kind, !.result = EmptyDict]
      [] OTHER -> [r EXCEPT !.pc = "returned", !.last = kind, !.result = EmptyDict]

\* a policy that awaits the retry without returning its result
StatusPolicyDropRetry(r, kind) ==
    CASE kind = "200" ->
           [r EXCEPT !.pc = "returned", !.last = kind,
                     !.result = IF r.sleeps > 0 THEN EmptyDict
                                ELSE Payload(r.resource, r.realm, r.name)]
      [] kind = "429" -> [r EXCEPT !.pc = "sleep", !.last = kind]
      [] OTHER -> [r EXCEPT !.pc = "returned", !.last = kind, !.result = EmptyDict]

\* the status policy, api_client.py 123-144
StatusPolicy(r, kind) ==
    CASE kind = "200" ->
           [r EXCEPT !.pc = "returned", !.last = kind,
                     !.result = Payload(r.resource, r.realm, r.name)]
      [] kind = "429" -> [r EXCEPT !.pc = "sleep", !.last = kind]
      [] OTHER -> [r EXCEPT !.pc = "returned", !.last = kind, !.result = EmptyDict]

\* the API answers the GET; an answer outside free counts as a fault
GetResponseOf(free) ==
    /\ req.pc = "get"
    /\ \E kind \in GetResponses :
        /\ kind \notin free => faults < MaxFaults
        /\ faults' = IF kind \notin free THEN faults + 1 ELSE faults
        /\ req' = StatusPolicy(req, kind)
    /\ UNCHANGED <<limiter, flow, ext, setup, configVars, clientVars, cycleVars, hostVars>>

GetResponse == GetResponseOf({"200"})

\* the API answers the GET; it may throttle as often as it likes
ThrottledResponse == GetResponseOf({"200", "429"})

\* asyncio.sleep(30) is over and _make_request calls itself, api_client.py 132-133
RetryAfterSleep ==
    /\ req.pc = "sleep"
    /\ now' = Min(now + RETRY_SLEEP, MaxTime)
    /\ req' = [req EXCEPT !.pc = "enter", !.sleeps = Min(@ + 1, MaxGets)]
    /\ UNCHANGED <<limiter, flow, ext, setup, configVars, access_token, token_expires, cycleVars, hostVars, faults>>

\* time passes while an HTTP call is outstanding or between two calls
Tick ==
    /\ req.pc \in {"post", "get", "idle"}
    /\ now < MaxTime
    /\ now' = Min(now + TimeStep, MaxTime)
    /\ UNCHANGED <<limiter, flow, ext, setup, configVars, access_token, token_expires, req, cycleVars, hostVars, faults>>

\* a caller awaits one of the fetchers of the client
CallFetcher ==
    /\ cpc = "client"
    /\ req.pc = "idle"
    /\ \E resource \in {"profile", "realm"}, c \in TrackedCharacters :
        req' = NewRequest(resource, c["realm"], c["character_name"])
    /\ UNCHANGED <<limiter, flow, ext, setup, configVars, clientVars, cycleVars, hostVars, faults>>

\* the fetcher hands the result of _make_request, or its exception, to the caller
FetcherDone ==
    /\ cpc = "client"
    /\ req.pc \in {"returned", "raised"}
    /\ req' = IdleReq
    /\ UNCHANGED <<limiter, flow, ext, setup, configVars, clientVars, cycleVars, hostVars, faults>>

(***************************************************************************)
(* sensor.py: the fetch helpers and the poll cycle.                        *)
(***************************************************************************)
CharHelpers == <<"basic", "pvp", "raid", "mythicplus">>

NoGroups == [h \in {} |-> EmptyDict]

\* helpers that do not look at their feature flag
HelperEnabledAlways(h) == TRUE

\* the feature test each helper starts with; the basic helper has none
HelperEnabled(h) ==
    CASE h = "basic" -> TRUE
      [] h = "pvp" -> features[CONF_ENABLE_PVP]
      [] h = "raid" -> features[CONF_ENABLE_RAIDS]
      [] h = "mythicplus" -> features[CONF_ENABLE_MYTHIC_PLUS]
      [] OTHER -> features[CONF_ENABLE_SERVER_STATUS]

\* the resources a helper fetches, in order
HelperResources(h) ==
    CASE h = "basic" -> <<"profile", "equipment", "achievements">>
      [] h = "pvp" ->
           <<"pvp-summary", "pvp-bracket-2v2", "pvp-bracket-3v3", "pvp-bracket-rbg">>
      [] h = "raid" -> <<"encounters-raids">>
      [] h = "mythicplus" -> <<"mythic-profile", "mythic-season">>
      [] OTHER -> <<"realm", "realm", "connected-realm">>

\* get_connected_realm asks for the connected realm only when the realm
\* document carries an id, api_client.py 189-191
ConnectedRealmSkipped(h, ds) ==
    /\ h = "server"
    /\ Len(ds) = 2
    /\ ~(Truthy(ds[2]) /\ "id" \in DOMAIN ds[2])

\* the resource helper h fetches next after receiving ds, "none" when it has all
NextResource(h, ds) ==
    IF Len(ds) >= Len(HelperResources(h)) \/ ConnectedRealmSkipped(h, ds)
    THEN "none"
    ELSE HelperResources(h)[Len(ds) + 1]

\* a helper that gives up when one of its documents is empty
ExtractAllOrNothing(h, ds) ==
    IF \E i \in 1..Len(ds) : ~Truthy(ds[i]) THEN EmptyDict
    ELSE CASE h = "basic" ->
                IF BasicRaises(ds[1]) THEN EmptyDict ELSE BasicData(ds[1], ds[2], ds[3])
           [] h = "pvp" -> PvpData(AllPvpData(ds))
           [] h = "raid" -> RaidData(ds[1])
           [] h = "mythicplus" -> MythicPlusData(ds[1], ds[2])
           [] OTHER -> ServerData(ds[1], IF Len(ds) = 3 THEN ds[3] ELSE EmptyDict)

\* what helper h returns from the documents ds it received
Extract(h, ds) ==
    CASE h = "basic" ->
           IF BasicRaises(ds[1]) THEN EmptyDict ELSE BasicData(ds[1], ds[2], ds[3])
      [] h = "pvp" -> PvpData(AllPvpData(ds))
      [] h = "raid" -> RaidData(ds[1])
      [] h = "mythicplus" -> MythicPlusData(ds[1], ds[2])
      [] OTHER -> ServerData(ds[1], IF Len(ds) = 3 THEN ds[3] ELSE EmptyDict)

\* an except branch that reports the failure in the group it returns
HelperOnExceptionReporting(h) == [error |-> h]

\* what a helper returns when a fetch raised: its except branch
HelperOnException(h) == EmptyDict

\* what a helper returns when its feature is off
HelperDisabled(h) == EmptyDict

\* character_data, sensor.py 319-324
CharacterData(g) ==
    Merge(Merge(Merge(g["basic"], g["pvp"]), g["raid"]), g["mythicplus"])

\* d[key] = value
SetItem(d, key, value) == (key :> value) @@ d

TargetRealm == IF cpc = "realm" THEN cur_realm ELSE characters[idx]["realm"]

TargetName == IF cpc = "realm" THEN "none" ELSE characters[idx]["character_name"]

\* the key of all_data or of server_data the helper in progress works for
TargetKey == IF cpc = "realm" THEN cur_realm ELSE CharKey(TargetRealm, TargetName)

\* the helper in progress is over and returned group
FinishHelper(group) ==
    IF cpc = "realm"
    THEN /\ server_data' = SetItem(server_data, cur_realm, group)
         /\ cpc' = "realm_sleep"
         /\ docs' = <<>>
         /\ UNCHANGED <<idx, cur_realm, realms_todo, helper, groups, all_data>>
    ELSE IF helper = "mythicplus"
    THEN /\ all_data' =
              SetItem(all_data,
                      CharKey(characters[idx]["realm"], characters[idx]["character_name"]),
                      CharacterData(SetItem(groups, helper, group)))
         /\ cpc' = "char_sleep"
         /\ docs' = <<>>
         /\ groups' = NoGroups
         /\ UNCHANGED <<idx, cur_realm, realms_todo, helper, server_data>>
    ELSE /\ groups' = SetItem(groups, helper, group)
         /\ helper' = CASE helper = "basic" -> "pvp"
                        [] helper = "pvp" -> "raid"
                        [] OTHER -> "mythicplus"
         /\ docs' = <<>>
         /\ UNCHANGED <<cpc, idx, cur_realm, realms_todo, all_data, server_data>>

\* the locals of _async_update_data before it runs and after it has ended
NoLocals ==
    /\ idx' = 1
    /\ cur_realm' = "none"
    /\ realms_todo' = {}
    /\ helper' = "basic"
    /\ docs' = <<>>
    /\ groups' = NoGroups
    /\ all_data' = EmptyDict
    /\ server_data' = EmptyDict
    /\ issued' = <<>>

\* the timer of the host starts a cycle; all_data = {}, sensor.py 304-313
StartCycle ==
    /\ cpc = "idle"
    /\ cpc' = "char"
    /\ idx' = 1
    /\ helper' = "basic"
    /\ docs' = <<>>
    /\ groups' = NoGroups
    /\ all_data' = EmptyDict
    /\ server_data' = EmptyDict
    /\ degraded' = {}
    /\ issued' = <<>>
    /\ UNCHANGED <<limiter, flow, ext, setup, configVars, clientVars, req, cur_realm, realms_todo, hostVars, faults>>

\* a helper whose feature is off returns at once
HelperSkip ==
    /\ cpc \in {"char", "realm"}
    /\ req.pc = "idle"
    /\ docs = <<>>
    /\ ~HelperEnabled(helper)
    /\ FinishHelper(HelperDisabled(helper))
    /\ UNCHANGED <<limiter, flow, ext, setup, configVars, clientVars, req, hostVars, faults, degraded, issued>>

\* a helper calls its next fetcher
\* a helper that starts its next fetch without awaiting the previous one
HelperCallEager ==
    /\ cpc \in {"char", "realm"}
    /\ HelperEnabled(helper)
    /\ NextResource(helper, docs) # "none"
    /\ req' = NewRequest(NextResource(helper, docs), TargetRealm, TargetName)
    /\ issued' = Append(issued, <<TargetKey, NextResource(helper, docs)>>)
    /\ UNCHANGED <<limiter, flow, ext, setup, configVars, clientVars, cpc, idx, cur_realm, realms_todo, helper,
                   docs, groups, all_data, server_data, degraded, hostVars, faults>>

\* the helper awaits its next fetcher (one request of _make_request)
HelperCall ==
    /\ cpc \in {"char", "realm"}
    /\ req.pc = "idle"
    /\ HelperEnabled(helper)
    /\ NextResource(helper, docs) # "none"
    /\ req' = NewRequest(NextResource(helper, docs), TargetRealm, TargetName)
    /\ issued' = Append(issued, <<TargetKey, NextResource(helper, docs)>>)
    /\ UNCHANGED <<limiter, flow, ext, setup, configVars, clientVars, cpc, idx, cur_realm, realms_todo, helper,
                   docs, groups, all_data, server_data, degraded, hostVars, faults>>

\* the fetcher returned a document; after the last one the helper extracts
HelperReturn ==
    /\ cpc \in {"char", "realm"}
    /\ req.pc = "returned"
    /\ req' = IdleReq
    /\ LET got == Append(docs, req.result)
       IN  IF NextResource(helper, got) # "none"
           THEN /\ docs' = got
                /\ UNCHANGED <<cpc, idx, cur_realm, realms_todo, helper, groups,
                               all_data, server_data>>
           ELSE FinishHelper(Extract(helper, got))
    /\ degraded' = IF req.last = "200" THEN degraded
                   ELSE degraded \cup {<<TargetKey, req.resource>>}
    /\ UNCHANGED <<limiter, flow, ext, setup, configVars, clientVars, hostVars, faults, issued>>

\* the fetcher raised; the helper's except branch returns
HelperRaise ==
    /\ cpc \in {"char", "realm"}
    /\ req.pc = "raised"
    /\ req' = IdleReq
    /\ FinishHelper(HelperOnException(helper))
    /\ degraded' = degraded \cup {<<TargetKey, helper>>}
    /\ UNCHANGED <<limiter, flow, ext, setup, configVars, clientVars, hostVars, faults, issued>>

\* asyncio.sleep(0.1) after a character, then the next character or the realms
CharSleep ==
    /\ cpc = "char_sleep"
    /\ IF idx < Len(characters)
       THEN /\ idx' = idx + 1
            /\ cpc' = "char"
            /\ helper' = "basic"
            /\ UNCHANGED realms_todo
       ELSE /\ cpc' = "realm_pick"
            /\ realms_todo' = RealmsOf(characters)
            /\ UNCHANGED <<idx, helper>>
    /\ UNCHANGED <<limiter, flow, ext, setup, configVars, clientVars, req, cur_realm, docs, groups, all_data,
                   server_data, hostVars, faults, degraded, issued>>

\* the loop over self.realms takes its next realm, in the order of the set
RealmPick ==
    /\ cpc = "realm_pick"
    /\ \E r \in realms_todo :
        /\ cur_realm' = r
        /\ realms_todo' = realms_todo \ {r}
    /\ cpc' = "realm"
    /\ helper' = "server"
    /\ UNCHANGED <<limiter, flow, ext, setup, configVars, clientVars, req, idx, docs, groups, all_data,
                   server_data, hostVars, faults, degraded, issued>>

\* asyncio.sleep(0.1) after a realm
RealmSleep ==
    /\ cpc = "realm_sleep"
    /\ cpc' = "realm_pick"
    /\ UNCHANGED <<limiter, flow, ext, setup, configVars, clientVars, req, idx, cur_realm, realms_todo, helper,
                   docs, groups, all_data, server_data, hostVars, faults, degraded,
                   issued>>

\* the snapshot _async_update_data returns, sensor.py 338-342
Snapshot(all, servers, flag) ==
    SetItem(SetItem(all, "servers", servers), "last_update", flag)

\* an except branch that swallows the exception and returns nothing
OnCycleExceptionSwallowed(all) == [kind |-> "returned", value |-> EmptyDict]

\* an except branch that returns what the cycle had built so far
OnCycleExceptionPartial(all) == [kind |-> "returned", value |-> all]

\* what the except branch of _async_update_data does with an exception of the
\* cycle, sensor.py 344-345
OnCycleException(all) == [kind |-> "UpdateFailed", value |-> EmptyDict]

\* the host's refresh of a coordinator: a returned snapshot replaces data, a
\* failed update keeps data and clears last_update_success
HostRefresh(result) ==
    /\ outcome' = result.kind
    /\ IF result.kind = "returned"
       THEN /\ data' = result.value
            /\ last_update_success' = TRUE
            /\ last_returned' = result.value
       ELSE /\ last_update_success' = FALSE
            /\ UNCHANGED <<data, last_returned>>

\* the first refresh of a coordinator failed: the setup of the platform is
\* given up and tried again later with a new client and a new coordinator,
\* sensor.py 369-373
FirstRefreshFailed ==
    /\ outcome' = "UpdateFailed"
    /\ access_token' = NoneStr
    /\ token_expires' = NoneVal
    /\ last_update_success' = TRUE
    /\ UNCHANGED <<data, last_returned>>

\* the realm loop is over: the cycle returns its snapshot
CycleReturn ==
    /\ cpc = "realm_pick"
    /\ realms_todo = {}
    /\ HostRefresh([kind |-> "returned",
                    value |-> Snapshot(all_data, server_data, last_update_success)])
    /\ cpc' = "idle"
    /\ NoLocals
    /\ UNCHANGED <<limiter, flow, ext, setup, configVars, clientVars, req, faults, degraded>>

\* a statement of the cycle outside the fetch helpers raises
CycleException ==
    /\ cpc \in {"char", "char_sleep", "realm_pick", "realm_sleep"}
    /\ req.pc = "idle"
    /\ docs = <<>>
    /\ faults < MaxFaults
    /\ faults' = faults + 1
    /\ LET result == OnCycleException(all_data)
       IN  IF result.kind = "UpdateFailed" /\ data = NoneVal
           THEN FirstRefreshFailed
           ELSE /\ HostRefresh(result)
                /\ UNCHANGED <<access_token, token_expires>>
    /\ cpc' = "idle"
    /\ NoLocals
    /\ degraded' = {}
    /\ UNCHANGED <<limiter, flow, ext, setup, configVars, now, req>>

\* the host shuts down while the cycle is suspended: the task is cancelled
\* (CancelledError is no Exception: no except branch of the cycle catches it)
CancelCycle ==
    /\ \/ req.pc \in {"post", "get", "sleep"}
       \/ cpc \in {"char_sleep", "realm_sleep"}
    /\ cpc \notin {"idle", "cancelled"}
    /\ cpc' = "cancelled"
    /\ req' = IdleReq
    /\ outcome' = "cancelled"
    /\ NoLocals
    /\ degraded' = {}
    /\ UNCHANGED <<limiter, flow, ext, setup, configVars, clientVars, data, last_update_success, last_returned,
                   faults>>

\* the state after construction, api_client.py 43-47 and sensor.py 62-65
Constructed ==
    /\ access_token = NoneStr
    /\ token_expires = NoneVal
    /\ now = 0
    /\ req = IdleReq
    /\ idx = 1
    /\ cur_realm = "none"
    /\ realms_todo = {}
    /\ helper = "basic"
    /\ docs = <<>>
    /\ groups = NoGroups
    /\ all_data = EmptyDict
    /\ server_data = EmptyDict
    /\ data = NoneVal
    /\ last_update_success = TRUE
    /\ outcome = "none"
    /\ last_returned = NoneVal
    /\ faults = 0
    /\ degraded = {}
    /\ issued = <<>>
    /\ setup = NoSetup
    /\ flow = NoFlow
    /\ limiter = NoLimiter

\* a coordinator with its client, and the timer about to start the first cycle
Init ==
    /\ characters \in CharacterLists
    /\ features \in [FeatureFlags -> BOOLEAN]
    /\ Constructed
    /\ ext = NoExt
    /\ cpc = "idle"

\* the token endpoint as the poll cycle meets it
CycleTokenResponses ==
    {[status |-> 200, body |-> [access_token |-> "t1", expires_in |-> e]] :
        e \in ExpiresIns}
    \cup {[status |-> 401, body |-> EmptyDict], [status |-> 0, body |-> EmptyDict]}

CycleTokenResponse == TokenResponseOf(CycleTokenResponses)

Next ==
    \/ StartCycle
    \/ HelperSkip
    \/ HelperCall
    \/ MakeRequestEnter
    \/ CycleTokenResponse
    \/ GetResponse
    \/ RetryAfterSleep
    \/ HelperReturn
    \/ HelperRaise
    \/ CharSleep
    \/ RealmPick
    \/ RealmSleep
    \/ CycleReturn
    \/ CycleException
    \/ CancelCycle

Spec == Init /\ [][Next]_vars

(***************************************************************************)
(* The client alone: one client and a caller of its fetchers.              *)
(***************************************************************************)
InitClient ==
    /\ characters = <<>>
    /\ features = [f \in FeatureFlags |-> FALSE]
    /\ Constructed
    /\ ext = NoExt
    /\ cpc = "client"

NextClient ==
    \/ CallFetcher
    \/ MakeRequestEnter
    \/ TokenResponse
    \/ ThrottledResponse
    \/ RetryAfterSleep
    \/ Tick
    \/ FetcherDone

SpecClient == InitClient /\ [][NextClient]_vars

(***************************************************************************)
(* The extraction part of the PvP, raid and Mythic+ helpers on its own:    *)
(* the documents the fetchers may return, and the helper applied to them.  *)
(***************************************************************************)
\* sequences over S of length at most n
SeqUpTo(S, n) == UNION {[1..k -> S] : k \in 0..n}

Mode(difficulty, completed) ==
    [difficulty |-> [name |-> difficulty],
     progress |-> [completed_count |-> completed, total_count |-> 8]]

Modes == {Mode(d, c) : d \in DifficultyNames, c \in CompletedCounts}

\* encounter documents: none, without expansions, or an expansion with the
\* given modes followed by an older expansion
EncounterDocs ==
    {EmptyDict, [character |-> [name |-> "B"]]}
    \cup {[expansions |->
              << [expansion |-> [name |-> x], instances |-> << [modes |-> ms] >>],
                 [expansion |-> [name |-> "Dragonflight"],
                  instances |-> << [modes |-> << Mode("Normal", 9) >>] >>] >>] :
             x \in {CURRENT_EXPANSION_NAME, "Dragonflight"},
             ms \in SeqUpTo(Modes, MaxModes)}

Runs ==
    {[keystone_level |-> l, is_completed_within_time |-> t] :
        l \in KeystoneLevelValues, t \in BOOLEAN}
    \cup {[keystone_level |-> l] : l \in KeystoneLevelValues}

SeasonDocs ==
    {EmptyDict, [season |-> [id |-> 12]]}
    \cup {[best_runs |-> rs] : rs \in SeqUpTo(Runs, MaxRuns)}

ProfileDocs ==
    {EmptyDict, [current_period |-> [period |-> [id |-> 1]]]}
    \cup {[current_period |-> [best_runs |-> rs]] :
             rs \in {<<>>, <<[keystone_level |-> 7]>>,
                     <<[keystone_level |-> 7], [keystone_level |-> 9]>>}}

\* equipped items: four item levels and an item without one
EquippedItems ==
    {[item_level |-> l] : l \in {190, 200, 205, 210}} \cup {[name |-> "Tabard"]}

EquipmentDocs ==
    {EmptyDict} \cup {[equipped_items |-> is] : is \in SeqUpTo(EquippedItems, MaxItems)}

\* profile and achievements documents of a character: complete, poor, none,
\* and a guild without a name
CharacterDocs ==
    {<<[name |-> "A", level |-> 80, money |-> 12345, guild |-> [name |-> "Guild"],
        character_class |-> [name |-> "Mage"], realm |-> [name |-> "r1"]],
       [total_points |-> 1000]>>,
     <<EmptyDict, EmptyDict>>}

CharacterDocsOnce ==
    {<<[name |-> "B", level |-> 10, money |-> 0], [total_points |-> 20]>>,
     <<[name |-> "C", guild |-> [realm |-> [name |-> "r1"]]], EmptyDict>>}

SummaryDocs == {EmptyDict, [honor_level |-> 5], [pvp_map_statistics |-> <<>>]}

BracketDocs ==
    {EmptyDict,
     [rating |-> 1500, season_match_statistics |-> [won |-> 3]],
     [rating |-> 1000],
     [rating |-> 0, season_match_statistics |-> [won |-> 2]],
     [season_match_statistics |-> [won |-> 7]]}

\* the documents the fetchers of helper h may hand to its extraction part
ExtractInputs(h) ==
    CASE h = "pvp" ->
           {<<s, a, b, c>> : s \in SummaryDocs, a \in BracketDocs, b \in BracketDocs,
                             c \in BracketDocs}
      [] h = "raid" -> {<<e>> : e \in EncounterDocs}
      [] h = "basic" ->
           {<<c[1], e, c[2]>> : c \in CharacterDocs, e \in EquipmentDocs}
           \cup {<<c[1], EquipmentDoc("r1", "a"), c[2]>> : c \in CharacterDocsOnce}
      [] OTHER -> {<<p, sd>> : p \in ProfileDocs, sd \in SeasonDocs}

\* the helper computes its record from the documents it received
HelperExtract ==
    /\ cpc = "extract"
    /\ ext.pc = "input"
    /\ ext' = [ext EXCEPT !.pc = "output", !.output = Extract(ext.kind, ext.input)]
    /\ UNCHANGED <<configVars, clientVars, req, cycleVars, hostVars, faults, setup, flow, limiter>>

\* the next call of the helper: the same first document, the others anew
HelperInput ==
    /\ cpc = "extract"
    /\ ext.pc = "output"
    /\ \E ds \in ExtractInputs(ext.kind) :
          /\ ds[1] = ext.input[1]
          /\ ext' = [pc |-> "input", kind |-> ext.kind, input |-> ds,
                     output |-> EmptyDict]
    /\ UNCHANGED <<configVars, clientVars, req, cycleVars, hostVars, faults, setup, flow, limiter>>

InitExtract ==
    /\ characters = <<>>
    /\ features = [f \in FeatureFlags |-> TRUE]
    /\ Constructed
    /\ cpc = "extract"
    /\ \E h \in {"basic", "pvp", "raid", "mythicplus"} :
          ext \in {[pc |-> "input", kind |-> h, input |-> ds, output |-> EmptyDict] :
                     ds \in ExtractInputs(h)}

NextExtract ==
    \/ HelperExtract
    \/ HelperInput

SpecExtract == InitExtract /\ [][NextExtract]_vars

(***************************************************************************)
(* api_client.py: the endpoint path each fetcher builds from a realm and a *)
(* character name.                                                         *)
(***************************************************************************)
\* realm names as the operator may type them or pick them, and character names
RealmNames ==
    {"Area 52", "area 52", "area-52", "Kel'Thuzad", "kelthuzad", "Aegwynn",
     "aegwynn", "Pozzo dell'Eternità", "pozzo-delleternita"}

CharacterNames == {"Anna", "anna", "b"}

\* str.lower() on the names above
Lower(str) ==
    CASE str = "Area 52" -> "area 52"
      [] str = "Kel'Thuzad" -> "kel'thuzad"
      [] str = "Aegwynn" -> "aegwynn"
      [] str = "Pozzo dell'Eternità" -> "pozzo dell'eternità"
      [] str = "Anna" -> "anna"
      [] OTHER -> str

\* the fetchers that put a realm name into their path
PathFetchers ==
    {"profile", "equipment", "achievements", "pvp-summary", "pvp-bracket-2v2",
     "pvp-bracket-3v3", "pvp-bracket-rbg", "encounters-raids", "mythic-profile",
     "mythic-season", "realm"}

\* the f-string of each fetcher, given the realm and name parts of the path
Endpoint(resource, realm_part, name_part) ==
    LET character == "/profile/wow/character/" \o realm_part \o "/" \o name_part
    IN  CASE resource = "profile" -> character
          [] resource = "equipment" -> character \o "/equipment"
          [] resource = "achievements" -> character \o "/achievements"
          [] resource = "pvp-summary" -> character \o "/pvp-summary"
          [] resource = "pvp-bracket-2v2" -> character \o "/pvp-bracket/arena-2v2"
          [] resource = "pvp-bracket-3v3" -> character \o "/pvp-bracket/arena-3v3"
          [] resource = "pvp-bracket-rbg" -> character \o "/pvp-bracket/battlegrounds"
          [] resource = "encounters-raids" -> character \o "/encounters/raids"
          [] resource = "mythic-profile" -> character \o "/mythic-keystone-profile"
          [] resource = "mythic-season" ->
               character \o "/mythic-keystone-profile/season/12"
          [] OTHER -> "/data/wow/realm/" \o realm_part

\* the endpoint a fetcher asks for: realm.lower() and character_name.lower()
EndpointOf(resource, realm, name) == Endpoint(resource, Lower(realm), Lower(name))

\* a fetcher builds its endpoint
BuildEndpoint ==
    /\ cpc = "path"
    /\ ext.pc = "input"
    /\ ext' = [ext EXCEPT !.pc = "output",
                          !.output = [path |-> EndpointOf(ext.kind, ext.input[1],
                                                         ext.input[2])]]
    /\ UNCHANGED <<configVars, clientVars, req, cycleVars, hostVars, faults, setup, flow, limiter>>

InitPath ==
    /\ characters = <<>>
    /\ features = [f \in FeatureFlags |-> TRUE]
    /\ Constructed
    /\ cpc = "path"
    /\ ext \in {[pc |-> "input", kind |-> k, input |-> <<r, n>>, output |-> EmptyDict] :
                  k \in PathFetchers, r \in RealmNames, n \in CharacterNames}

NextPath == BuildEndpoint

SpecPath == InitPath /\ [][NextPath]_vars

(***************************************************************************)
(* __init__.py: the integration sets up config entries, one at a time.     *)
(***************************************************************************)
\* the host calls async_setup_entry(hass, entry): the domain dict is created,
\* a new client is built and get_all_realms is awaited, __init__.py 20-31
SetupStart ==
    /\ cpc = "setup"
    /\ setup.pc # "testing"
    /\ req.pc = "idle"
    /\ \E e \in Entries \ setup.domain :
        /\ setup' = [setup EXCEPT !.pc = "testing", !.entry = e.id,
                                  !.session = "open", !.test = NoTest]
        /\ req' = NewRequest("realm-index", e.region, "none")
    /\ access_token' = NoneStr
    /\ token_expires' = NoneVal
    /\ UNCHANGED <<limiter, flow, ext, configVars, now, cycleVars, hostVars, faults>>

\* a setup that stores the entry data before it looks at the test result
SetupTestDoneStoring ==
    /\ cpc = "setup"
    /\ setup.pc = "testing"
    /\ req.pc \in {"returned", "raised"}
    /\ LET test_data == [kind |-> req.pc, value |-> req.result]
           ok == req.pc = "returned" /\ Truthy(req.result)
           e == CHOOSE x \in Entries : x.id = setup.entry
       IN  setup' = [setup EXCEPT
                        !.pc = IF ok THEN "ready" ELSE "not_ready",
                        !.test = test_data,
                        !.session = "closed",
                        !.domain = @ \cup {e},
                        !.forwarded = IF ok THEN @ \cup {e.id} ELSE @]
    /\ req' = IdleReq
    /\ UNCHANGED <<limiter, flow, ext, configVars, clientVars, cycleVars, hostVars, faults>>

\* get_all_realms returned or raised: the session is closed, and either
\* ConfigEntryNotReady is raised or the entry data is stored and the sensor
\* platform is forwarded, __init__.py 29-49
SetupTestDone ==
    /\ cpc = "setup"
    /\ setup.pc = "testing"
    /\ req.pc \in {"returned", "raised"}
    /\ LET test_data == [kind |-> req.pc, value |-> req.result]
           ok == req.pc = "returned" /\ Truthy(req.result)
           e == CHOOSE x \in Entries : x.id = setup.entry
       IN  setup' = [setup EXCEPT
                        !.pc = IF ok THEN "ready" ELSE "not_ready",
                        !.test = test_data,
                        !.session = "closed",
                        !.domain = IF ok THEN @ \cup {e} ELSE @,
                        !.forwarded = IF ok THEN @ \cup {e.id} ELSE @]
    /\ req' = IdleReq
    /\ UNCHANGED <<limiter, flow, ext, configVars, clientVars, cycleVars, hostVars, faults>>

\* async_unload_entry: the platforms unload and the entry data is popped
SetupUnload ==
    /\ cpc = "setup"
    /\ setup.pc # "testing"
    /\ \E e \in setup.domain :
        setup' = [setup EXCEPT !.pc = "unloaded", !.entry = e.id,
                                !.domain = @ \ {e},
                                !.forwarded = @ \ {e.id}]
    /\ UNCHANGED <<limiter, flow, ext, configVars, clientVars, req, cycleVars, hostVars, faults>>

InitSetup ==
    /\ characters = <<>>
    /\ features = [f \in FeatureFlags |-> FALSE]
    /\ Constructed
    /\ ext = NoExt
    /\ cpc = "setup"

NextSetup ==
    \/ SetupStart
    \/ MakeRequestEnter
    \/ TokenResponse
    \/ ThrottledResponse
    \/ RetryAfterSleep
    \/ Tick
    \/ SetupTestDone
    \/ SetupUnload

SpecSetup == InitSetup /\ [][NextSetup]_vars

(***************************************************************************)
(* The poll cycle of one character under a server that may throttle any    *)
(* request, with the scheduling the event loop guarantees: a step that     *)
(* stays possible is taken, every HTTP call is answered.                   *)
(***************************************************************************)
InitFair ==
    /\ characters = Pick({1})
    /\ features \in [FeatureFlags -> BOOLEAN]
    /\ Constructed
    /\ ext = NoExt
    /\ cpc = "idle"

NextFair ==
    \/ StartCycle
    \/ HelperSkip
    \/ HelperCall
    \/ MakeRequestEnter
    \/ CycleTokenResponse
    \/ ThrottledResponse
    \/ RetryAfterSleep
    \/ HelperReturn
    \/ HelperRaise
    \/ CharSleep
    \/ RealmPick
    \/ RealmSleep
    \/ CycleReturn
    \/ CycleException

Fairness ==
    /\ WF_vars(HelperSkip)
    /\ WF_vars(HelperCall)
    /\ WF_vars(MakeRequestEnter)
    /\ WF_vars(CycleTokenResponse)
    /\ WF_vars(ThrottledResponse)
    /\ WF_vars(RetryAfterSleep)
    /\ WF_vars(HelperReturn)
    /\ WF_vars(HelperRaise)
    /\ WF_vars(CharSleep)
    /\ WF_vars(RealmPick)
    /\ WF_vars(RealmSleep)
    /\ WF_vars(CycleReturn)

SpecFair == InitFair /\ [][NextFair]_vars /\ Fairness

(***************************************************************************)
(* The poll cycle while time passes between its requests: two characters   *)
(* on one realm or on two, the character categories all on or all off.     *)
(***************************************************************************)
InitServer ==
    /\ characters \in {Pick({1, 2}), Pick({1, 3})}
    /\ features \in {f \in [FeatureFlags -> BOOLEAN] :
                       /\ f[CONF_ENABLE_RAIDS] = f[CONF_ENABLE_PVP]
                       /\ f[CONF_ENABLE_MYTHIC_PLUS] = f[CONF_ENABLE_PVP]}
    /\ Constructed
    /\ ext = NoExt
    /\ cpc = "idle"

\* time also passes between two requests
NextServer ==
    \/ Next
    \/ Tick

SpecServer == InitServer /\ [][NextServer]_vars

(***************************************************************************)
(* config_flow.py: the setup wizard. Its steps are user (credentials),     *)
(* features, character, character_confirm and final; the two validation    *)
(* functions each build a client of their own and close it.                *)
(***************************************************************************)
CONF_CLIENT_ID == "client_id"

CONF_CLIENT_SECRET == "client_secret"

CONF_REGION == "region"

CONF_CHARACTERS == "characters"

\* what the user may submit in the credentials form
CredentialInputs ==
    {[client_id |-> "id", client_secret |-> "secret", region |-> r] :
        r \in {"eu", "us"}}

\* what the user may submit in the features form: every flag on (the
\* defaults), every flag off, the server status alone
FeatureInputs ==
    {[f \in FeatureFlags |-> TRUE], [f \in FeatureFlags |-> FALSE],
     [f \in FeatureFlags |-> f = CONF_ENABLE_SERVER_STATUS]}

\* what the user may submit in the character form
CharacterInputs == TrackedCharacters

\* the messages an exception of the token exchange may carry: the status
\* message of api_client.py 82 and two texts of transport errors
TokenErrorMessages ==
    {"Failed to get access token: 401", "Cannot connect to host",
     "Domain name not found"}

\* the message of the CharacterNotFound raised at config_flow.py 154
CharacterNotFoundMessage == "Character not found on realm"

\* "not found" in str(e).lower()
ContainsNotFound(msg) == msg \in {"Domain name not found", CharacterNotFoundMessage}

\* validate_api_credentials on the finished get_all_realms call r: the
\* sorted realm list (kept as the set of its entries), or CannotConnect
ValidateApiCredentials(r) ==
    IF r.pc = "raised" \/ ~Truthy(r.result) \/ "realms" \notin DOMAIN r.result
    THEN [kind |-> "CannotConnect", realms |-> {}, closed |-> TRUE]
    ELSE [kind |-> "ok", realms |-> Range(r.result["realms"]), closed |-> TRUE]

\* the except branch of validate_character, config_flow.py 164-167
CharacterExceptBranch(msg) ==
    IF ContainsNotFound(msg) THEN "CharacterNotFound" ELSE "CannotConnect"

\* a validation that reports every exception as CannotConnect
ValidateCharacterNoMessageTest(r, character, msg) ==
    IF r.pc = "raised" \/ ~Truthy(r.result) \/ "name" \notin DOMAIN r.result
    THEN [kind |-> "CannotConnect", info |-> EmptyDict, closed |-> TRUE]
    ELSE [kind |-> "info",
          info |-> [name |-> r.result["name"],
                    level |-> Get(r.result, "level", "Unknown"),
                    character_class |-> SubStatus(r.result, "character_class"),
                    race |-> SubStatus(r.result, "race"),
                    realm |-> Get(Get(r.result, "realm", EmptyDict), "name",
                                  character["realm"])],
          closed |-> TRUE]

\* validate_character on the finished get_character_profile call r, msg
\* being the message of the exception when the call raised; the finally
\* clause closes the client on every way out
ValidateCharacter(r, character, msg) ==
    IF r.pc = "raised"
    THEN [kind |-> CharacterExceptBranch(msg), info |-> EmptyDict, closed |-> TRUE]
    ELSE IF ~Truthy(r.result) \/ "name" \notin DOMAIN r.result
    THEN [kind |-> CharacterExceptBranch(CharacterNotFoundMessage),
          info |-> EmptyDict, closed |-> TRUE]
    ELSE [kind |-> "info",
          info |-> [name |-> r.result["name"],
                    level |-> Get(r.result, "level", "Unknown"),
                    character_class |-> SubStatus(r.result, "character_class"),
                    race |-> SubStatus(r.result, "race"),
                    realm |-> Get(Get(r.result, "realm", EmptyDict), "name",
                                  character["realm"])],
          closed |-> TRUE]

\* the keys of the characters the flow has accepted
ExistingChars(f) ==
    {CharKey(f.characters[i]["realm"], f.characters[i]["character_name"]) :
        i \in 1..Len(f.characters)}

\* a credentials step that stores what was submitted before it validates
AfterUserValidationStoring(f, r) ==
    LET info == ValidateApiCredentials(r)
    IN  IF info.kind = "ok"
        THEN [f EXCEPT !.step = "features", !.pc = "form", !.errors = "none",
                       !.data = SetItem(Merge(@, f.input), "available_realms",
                                        info.realms),
                       !.session = "closed", !.input = EmptyDict]
        ELSE [f EXCEPT !.pc = "form", !.errors = "cannot_connect",
                       !.data = Merge(@, f.input),
                       !.session = "closed", !.input = EmptyDict]

\* async_step_user after validate_api_credentials, config_flow.py 199-219
AfterUserValidation(f, r) ==
    LET info == ValidateApiCredentials(r)
    IN  IF info.kind = "ok"
        THEN [f EXCEPT !.step = "features", !.pc = "form", !.errors = "none",
                       !.data = SetItem(Merge(@, f.input), "available_realms",
                                        info.realms),
                       !.session = "closed", !.input = EmptyDict]
        ELSE [f EXCEPT !.pc = "form", !.errors = "cannot_connect",
                       !.session = "closed", !.input = EmptyDict]

\* the entry of self.characters for the submitted character
CharacterEntry(user_input, info) ==
    [realm |-> user_input["realm"],
     character_name |-> user_input["character_name"],
     display_name |-> info["name"] \o " - " \o info["realm"],
     level |-> info["level"],
     character_class |-> info["character_class"],
     race |-> info["race"]]

\* the flow when validate_character is over with verdict v; message keeps
\* the text of the exception of a failed token exchange
Validated(f, r, v, msg) ==
    [f EXCEPT !.pc = "form", !.verdict = v.kind,
              !.message = IF r.last = "token-failed" THEN msg ELSE "none",
              !.session = IF v.closed THEN "closed" ELSE "open",
              !.input = EmptyDict]

\* the error a failed validation shows in the form
CharacterError(kind) ==
    IF kind = "CharacterNotFound" THEN "character_not_found" ELSE "cannot_connect"

\* a character step that accepts every validated character
AfterCharacterValidationNoDedupe(f, r, msg) ==
    LET v == ValidateCharacter(r, f.input, msg)
        char_key == CharKey(f.input["realm"], f.input["character_name"])
    IN  IF v.kind = "info"
        THEN [Validated(f, r, v, msg) EXCEPT
                 !.step = "character_confirm", !.errors = "none",
                 !.characters = Append(@, CharacterEntry(f.input, v.info)),
                 !.validated = @ \cup {char_key}]
        ELSE [Validated(f, r, v, msg) EXCEPT !.errors = CharacterError(v.kind)]

\* async_step_character after validate_character, config_flow.py 281-323
AfterCharacterValidation(f, r, msg) ==
    LET v == ValidateCharacter(r, f.input, msg)
        char_key == CharKey(f.input["realm"], f.input["character_name"])
    IN  IF v.kind = "info"
        THEN IF char_key \in ExistingChars(f)
             THEN [Validated(f, r, v, msg) EXCEPT
                      !.errors = "character_already_added",
                      !.validated = @ \cup {char_key}]
             ELSE [Validated(f, r, v, msg) EXCEPT
                      !.step = "character_confirm", !.errors = "none",
                      !.characters = Append(@, CharacterEntry(f.input, v.info)),
                      !.validated = @ \cup {char_key}]
        ELSE [Validated(f, r, v, msg) EXCEPT !.errors = CharacterError(v.kind)]

\* async_step_final, config_flow.py 351-374; configured tells whether an
\* entry with the same unique id exists
StepFinal(f, configured) ==
    IF f.characters = <<>>
    THEN [f EXCEPT !.step = "done", !.result = "abort:no_characters"]
    ELSE IF configured
    THEN [f EXCEPT !.step = "done", !.result = "abort:already_configured"]
    ELSE [f EXCEPT !.step = "done", !.result = "create_entry",
                   !.data = SetItem(@, CONF_CHARACTERS, f.characters)]

\* the user submits the credentials form: validate_api_credentials builds a
\* client and awaits get_all_realms, config_flow.py 109-119
StepUserSubmit ==
    /\ cpc = "flow"
    /\ flow.step = "user"
    /\ flow.pc = "form"
    /\ req.pc = "idle"
    /\ \E user_input \in CredentialInputs :
        /\ flow' = [flow EXCEPT !.pc = "validating", !.input = user_input,
                                !.session = "open"]
        /\ req' = NewRequest("realm-index", user_input[CONF_REGION], "none")
    /\ access_token' = NoneStr
    /\ token_expires' = NoneVal
    /\ UNCHANGED <<limiter, ext, setup, configVars, now, cycleVars, hostVars, faults>>

\* validate_api_credentials is over and async_step_user goes on
StepUserValidated ==
    /\ cpc = "flow"
    /\ flow.step = "user"
    /\ flow.pc = "validating"
    /\ req.pc \in {"returned", "raised"}
    /\ flow' = AfterUserValidation(flow, req)
    /\ req' = IdleReq
    /\ UNCHANGED <<limiter, ext, setup, configVars, clientVars, cycleVars, hostVars, faults>>

\* the user submits the features form, config_flow.py 234-235
StepFeatures ==
    /\ cpc = "flow"
    /\ flow.step = "features"
    /\ flow.pc = "form"
    /\ \E user_input \in FeatureInputs :
        flow' = [flow EXCEPT !.step = "character", !.data = Merge(@, user_input)]
    /\ UNCHANGED <<limiter, ext, setup, configVars, clientVars, req, cycleVars, hostVars, faults>>

\* the user submits the character form: validate_character builds a client
\* and awaits get_character_profile, config_flow.py 138-150
StepCharacterSubmit ==
    /\ cpc = "flow"
    /\ flow.step = "character"
    /\ flow.pc = "form"
    /\ req.pc = "idle"
    /\ \E user_input \in CharacterInputs :
        /\ flow' = [flow EXCEPT !.pc = "validating", !.input = user_input,
                                !.session = "open", !.verdict = "none"]
        /\ req' = NewRequest("profile", user_input["realm"],
                             user_input["character_name"])
    /\ access_token' = NoneStr
    /\ token_expires' = NoneVal
    /\ UNCHANGED <<limiter, ext, setup, configVars, now, cycleVars, hostVars, faults>>

\* validate_character is over and async_step_character goes on
StepCharacterValidated ==
    /\ cpc = "flow"
    /\ flow.step = "character"
    /\ flow.pc = "validating"
    /\ req.pc \in {"returned", "raised"}
    /\ \E msg \in TokenErrorMessages :
        flow' = AfterCharacterValidation(flow, req, msg)
    /\ req' = IdleReq
    /\ UNCHANGED <<limiter, ext, setup, configVars, clientVars, cycleVars, hostVars, faults>>

\* the user submits the confirmation form, config_flow.py 346-349: another
\* character, or the final step
StepCharacterConfirm ==
    /\ cpc = "flow"
    /\ flow.step = "character_confirm"
    /\ flow.pc = "form"
    /\ \E add_another \in BOOLEAN, configured \in BOOLEAN :
        IF add_another
        THEN /\ Len(flow.characters) < MaxChars
             /\ flow' = [flow EXCEPT !.step = "character", !.errors = "none"]
        ELSE flow' = StepFinal(flow, configured)
    /\ UNCHANGED <<limiter, ext, setup, configVars, clientVars, req, cycleVars, hostVars, faults>>

\* the host sets up the entry the flow created: the coordinator takes the
\* characters and the feature flags of the entry data and a client of its
\* own, sensor.py 54-72 and 348-373
EntrySetup ==
    /\ cpc = "flow"
    /\ flow.result = "create_entry"
    /\ characters' = [i \in 1..Len(flow.data[CONF_CHARACTERS]) |->
                         Character(flow.data[CONF_CHARACTERS][i]["realm"],
                                   flow.data[CONF_CHARACTERS][i]["character_name"])]
    /\ features' = [f \in FeatureFlags |-> Get(flow.data, f, TRUE)]
    /\ access_token' = NoneStr
    /\ token_expires' = NoneVal
    /\ cpc' = "idle"
    /\ UNCHANGED <<limiter, flow, ext, setup, now, req, idx, cur_realm, realms_todo, helper, docs,
                   groups, all_data, server_data, degraded, issued, hostVars, faults>>

\* the API answers a profile request of the wizard with a JSON document
\* that is no profile
FlowNamelessProfile ==
    /\ cpc = "flow"
    /\ req.pc = "get"
    /\ req.resource = "profile"
    /\ faults < MaxFaults
    /\ faults' = faults + 1
    /\ req' = [StatusPolicy(req, "200") EXCEPT !.result = [code |-> 200]]
    /\ UNCHANGED <<limiter, flow, ext, setup, configVars, clientVars, cycleVars, hostVars>>

\* the token endpoint and the API as the wizard meets them
FlowTokenResponse == cpc = "flow" /\ TokenResponse

FlowGetResponse == cpc = "flow" /\ ThrottledResponse

\* the token endpoint and the API as the first poll cycles of the new entry
\* meet them: in good health
EntryTokenResponse ==
    /\ cpc # "flow"
    /\ TokenResponseOf({resp \in CycleTokenResponses : resp.status = 200})

EntryGetResponse ==
    /\ cpc # "flow"
    /\ req.pc = "get"
    /\ req' = StatusPolicy(req, "200")
    /\ UNCHANGED <<limiter, flow, ext, setup, configVars, clientVars, cycleVars, hostVars, faults>>

InitWizard ==
    /\ characters = <<>>
    /\ features = [f \in FeatureFlags |-> FALSE]
    /\ Constructed
    /\ ext = NoExt
    /\ cpc = "flow"

NextWizard ==
    \/ StepUserSubmit
    \/ StepUserValidated
    \/ StepFeatures
    \/ StepCharacterSubmit
    \/ StepCharacterValidated
    \/ StepCharacterConfirm
    \/ EntrySetup
    \/ MakeRequestEnter
    \/ FlowTokenResponse
    \/ FlowGetResponse
    \/ FlowNamelessProfile
    \/ RetryAfterSleep
    \/ EntryTokenResponse
    \/ EntryGetResponse
    \/ StartCycle
    \/ HelperSkip
    \/ HelperCall
    \/ HelperReturn
    \/ CharSleep
    \/ RealmPick
    \/ RealmSleep
    \/ CycleReturn

SpecWizard == InitWizard /\ [][NextWizard]_vars

(***************************************************************************)
(* api_client.py: the client-side rate limiter. One call of _make_request  *)
(* at a time, with the clock in seconds and the counter of the client.     *)
(***************************************************************************)
\* the statuses of a response, and the ways a request or the reading of a
\* body fails in transport
ResponseStatuses == {"200", "404", "429", "500"}

TransportErrors == {"timeout", "neterr"}

\* the counter is kept within the values the model follows: a burst from
\* zero, and a burst around the limit
InBudget(count) ==
    \/ count < MaxBurst
    \/ count >= RATE_LIMIT - 1 /\ count < RATE_LIMIT + MaxBurst

\* a check that resets the counter whenever it has hit the limit
RateLimitCheckNoWindow(l) ==
    LET reset == l.request_count >= RATE_LIMIT
        count == IF reset THEN 0 ELSE l.request_count
    IN  [l EXCEPT !.request_count = count,
                  !.last_request_reset = IF reset THEN l.clock ELSE @,
                  !.pc = IF count >= RATE_LIMIT THEN "delay" ELSE "token"]

\* _rate_limit_check up to its sleep, api_client.py 88-97
RateLimitCheck(l) ==
    LET reset == l.clock - l.last_request_reset >= RATE_WINDOW
        count == IF reset THEN 0 ELSE l.request_count
    IN  [l EXCEPT !.request_count = count,
                  !.last_request_reset = IF reset THEN l.clock ELSE @,
                  !.pc = IF count >= RATE_LIMIT THEN "delay" ELSE "token"]

\* a fetcher calls _make_request
LimiterCall ==
    /\ cpc = "limiter"
    /\ limiter.pc = "idle"
    /\ InBudget(limiter.request_count)
    /\ limiter' = [limiter EXCEPT !.pc = "check"]
    /\ UNCHANGED <<flow, ext, setup, configVars, clientVars, req, cycleVars, hostVars, faults>>

\* await self._rate_limit_check(), api_client.py 101
LimiterCheck ==
    /\ cpc = "limiter"
    /\ limiter.pc = "check"
    /\ limiter' = RateLimitCheck(limiter)
    /\ UNCHANGED <<flow, ext, setup, configVars, clientVars, req, cycleVars, hostVars, faults>>

\* asyncio.sleep(60) of the limiter is over, api_client.py 97
LimiterDelay ==
    /\ cpc = "limiter"
    /\ limiter.pc = "delay"
    /\ limiter' = [limiter EXCEPT !.pc = "token", !.delayed = TRUE,
                                  !.clock = Min(@ + RATE_SLEEP, MaxClock)]
    /\ UNCHANGED <<flow, ext, setup, configVars, clientVars, req, cycleVars, hostVars, faults>>

\* the token is there and the GET is sent, api_client.py 103-120; or the
\* token exchange fails: the call raises, in a retry it returns {}
LimiterSend ==
    /\ cpc = "limiter"
    /\ limiter.pc = "token"
    /\ \/ limiter' = [limiter EXCEPT !.pc = "get", !.at_send = limiter.request_count]
       \/ /\ faults < MaxFaults
          /\ limiter' = [limiter EXCEPT !.pc = "returned", !.status = "token-failed"]
    /\ faults' = IF limiter'.pc = "get" THEN faults ELSE faults + 1
    /\ UNCHANGED <<flow, ext, setup, configVars, clientVars, req, cycleVars, hostVars>>

\* a response arrives: the counter goes up, api_client.py 121, and the
\* status decides, 123-138: 200 reads the body, 429 sleeps, others return {}
LimiterResponse ==
    /\ cpc = "limiter"
    /\ limiter.pc = "get"
    /\ \E status \in ResponseStatuses :
        limiter' = [limiter EXCEPT !.request_count = @ + 1, !.status = status,
                                   !.pc = CASE status = "200" -> "body"
                                            [] status = "429" -> "sleep"
                                            [] OTHER -> "returned"]
    /\ UNCHANGED <<flow, ext, setup, configVars, clientVars, req, cycleVars, hostVars, faults>>

\* no response arrives: a timeout or a network error, api_client.py 139-144
LimiterTransportError ==
    /\ cpc = "limiter"
    /\ limiter.pc = "get"
    /\ \E err \in TransportErrors :
        limiter' = [limiter EXCEPT !.status = err, !.pc = "returned"]
    /\ UNCHANGED <<flow, ext, setup, configVars, clientVars, req, cycleVars, hostVars, faults>>

\* await response.json(), api_client.py 124: the document, a body that is
\* no JSON, or a transport error while the body is read
LimiterBody ==
    /\ cpc = "limiter"
    /\ limiter.pc = "body"
    /\ \E read \in {"200", "200-nojson"} \cup TransportErrors :
        limiter' = [limiter EXCEPT !.status = read, !.pc = "returned"]
    /\ UNCHANGED <<flow, ext, setup, configVars, clientVars, req, cycleVars, hostVars, faults>>

\* asyncio.sleep(30) is over and _make_request calls itself, 132-133
LimiterRetry ==
    /\ cpc = "limiter"
    /\ limiter.pc = "sleep"
    /\ InBudget(limiter.request_count)
    /\ limiter' = [limiter EXCEPT !.pc = "check", !.delayed = FALSE,
                                  !.clock = Min(@ + RETRY_SLEEP, MaxClock)]
    /\ UNCHANGED <<flow, ext, setup, configVars, clientVars, req, cycleVars, hostVars, faults>>

\* the call is over
LimiterDone ==
    /\ cpc = "limiter"
    /\ limiter.pc = "returned"
    /\ limiter' = [limiter EXCEPT !.pc = "idle", !.status = "none",
                                  !.at_send = 0, !.delayed = FALSE]
    /\ UNCHANGED <<flow, ext, setup, configVars, clientVars, req, cycleVars, hostVars, faults>>

\* time passes between two calls
LimiterTick ==
    /\ cpc = "limiter"
    /\ limiter.pc = "idle"
    /\ limiter.clock < MaxClock
    /\ limiter' = [limiter EXCEPT !.clock = Min(@ + IdleStep, MaxClock)]
    /\ UNCHANGED <<flow, ext, setup, configVars, clientVars, req, cycleVars, hostVars, faults>>

\* a busy hour: the calls since the last reset have brought the counter to
\* one below the limit
LimiterBusy ==
    /\ cpc = "limiter"
    /\ limiter.pc = "idle"
    /\ limiter.request_count < RATE_LIMIT - 1
    /\ limiter' = [limiter EXCEPT !.request_count = RATE_LIMIT - 1]
    /\ UNCHANGED <<flow, ext, setup, configVars, clientVars, req, cycleVars, hostVars, faults>>

InitLimiter ==
    /\ characters = <<>>
    /\ features = [f \in FeatureFlags |-> FALSE]
    /\ Constructed
    /\ ext = NoExt
    /\ cpc = "limiter"

NextLimiter ==
    \/ LimiterCall
    \/ LimiterCheck
    \/ LimiterDelay
    \/ LimiterSend
    \/ LimiterResponse
    \/ LimiterTransportError
    \/ LimiterBody
    \/ LimiterRetry
    \/ LimiterDone
    \/ LimiterTick
    \/ LimiterBusy

SpecLimiter == InitLimiter /\ [][NextLimiter]_vars

(***************************************************************************)
(* The poll cycle during an outage of the token endpoint.                  *)
(***************************************************************************)
NextOutage ==
    \/ StartCycle
    \/ HelperSkip
    \/ HelperCall
    \/ MakeRequestEnter
    \/ TokenOutage
    \/ HelperRaise
    \/ CharSleep
    \/ RealmPick
    \/ RealmSleep
    \/ CycleReturn

SpecOutage == Init /\ [][NextOutage]_vars

(***************************************************************************)
(* Properties.                                                             *)
(***************************************************************************)
\* the keys of all_data a complete cycle fills
CharKeys ==
    {CharKey(characters[i]["realm"], characters[i]["character_name"]) :
        i \in 1..Len(characters)}

\* the metric keys declared for the categories enabled for a character
EnabledSensorTypes ==
    BASIC_SENSOR_TYPES
        \cup (IF features[CONF_ENABLE_PVP] THEN PVP_SENSOR_TYPES ELSE {})
        \cup (IF features[CONF_ENABLE_RAIDS] THEN RAID_SENSOR_TYPES ELSE {})
        \cup (IF features[CONF_ENABLE_MYTHIC_PLUS] THEN MYTHICPLUS_SENSOR_TYPES ELSE {})

\* C1: in the snapshot of every cycle that returned, the record of every
\* tracked character holds every metric key declared for its enabled
\* categories, and with server status enabled the record of every realm holds
\* every key of SERVER_SENSOR_TYPES, whatever failed during the cycle.
C1_DeclaredKeysPresent ==
    data # NoneVal =>
        /\ \A key \in CharKeys : EnabledSensorTypes \subseteq DOMAIN data[key]
        /\ features[CONF_ENABLE_SERVER_STATUS] =>
              \A realm \in RealmsOf(characters) :
                  SERVER_SENSOR_TYPES \subseteq DOMAIN data["servers"][realm]

\* C2: one call of _make_request sends at most two GETs and sleeps the cooldown
\* at most once: after the retry was answered 429 too, the call does not go to
\* sleep again.
C2_AtMostOneRetry ==
    /\ req.gets <= 2
    /\ req.sleeps <= 1
    /\ req.pc = "sleep" => req.sleeps = 0

\* C3: every poll cycle that has started ends, whatever the server answers,
\* given that every HTTP call is answered.
C3_CycleTerminates == (cpc # "idle") ~> (cpc = "idle")

\* C10: the flag under last_update of every snapshot a cycle returned is true,
\* that cycle having succeeded.
C10_FlagReportsOwnCycle == data # NoneVal => data["last_update"] = TRUE

\* the answers to a GET after which _make_request returns the empty document
EmptyAnswers == {"200-nojson", "404", "500", "timeout", "neterr"}

\* C4 as claimed: _make_request never raises; status 200 returns the parsed
\* document, a 404, another error status, a timeout or a network error returns
\* the empty document.
C4_NeverRaises ==
    /\ req.pc # "raised"
    /\ req.pc = "returned" /\ req.last = "200" =>
           req.result = Payload(req.resource, req.realm, req.name)
    /\ req.pc = "returned" /\ req.last \in EmptyAnswers => req.result = EmptyDict

\* C4 as amended: status 200 returns the parsed document; a 404, another error
\* status, a timeout or a network error returns the empty document; the only
\* exception that leaves _make_request is that of a token exchange failing on
\* the first attempt, before any GET was sent; a token exchange failing in the
\* retry after a 429 returns the empty document.
C4_StatusPolicyTotal ==
    /\ req.pc = "returned" =>
           /\ req.last \in {"200", "token-failed"} \cup EmptyAnswers
           /\ req.last = "200" =>
                  req.result = Payload(req.resource, req.realm, req.name)
           /\ req.last \in EmptyAnswers => req.result = EmptyDict
           /\ req.last = "token-failed" => req.result = EmptyDict /\ req.sleeps > 0
    /\ req.pc = "raised" =>
           req.last = "token-failed" /\ req.gets = 0 /\ req.sleeps = 0

C4_Witness ==
    /\ req.pc = "returned"
    /\ req.last = "404"
    /\ req.gets = 1
    /\ req.result = EmptyDict

\* C5: _get_access_token uses the cached token without asking the token
\* endpoint whenever a token is cached and now < expiry; otherwise it makes one
\* exchange, and on a 200 answer it stores the returned token with the expiry
\* now + expires_in - 60 and uses that token.
C5_TokenCaching ==
    [][/\ req.pc = "enter" =>
             IF access_token # NoneStr /\ token_expires # NoneVal
                  /\ now < token_expires[1]
             THEN /\ req'.pc = "get"
                  /\ req'.bearer = access_token
                  /\ UNCHANGED <<access_token, token_expires>>
             ELSE /\ req'.pc = "post"
                  /\ UNCHANGED <<access_token, token_expires>>
       /\ req.pc = "post" /\ req'.pc = "get" =>
             /\ "access_token" \in DOMAIN req'.token_body
             /\ access_token' = req'.token_body["access_token"]
             /\ token_expires' =
                    <<now + Get(req'.token_body, "expires_in", DEFAULT_EXPIRES_IN)
                          - TOKEN_MARGIN>>
             /\ req'.bearer = access_token'
       /\ req.pc = "post" /\ req' # req => req'.pc \in {"get", "returned", "raised"}
      ]_vars

\* a second request served from the cache after time has passed
C5_Witness ==
    /\ req.pc = "get"
    /\ req.sleeps = 0
    /\ DOMAIN req.token_body = {}
    /\ req.bearer = "t2"
    /\ now > 0

\* C6: a failed token exchange raises and leaves the stored token and the
\* stored expiry exactly as they were before the call.
C6_FailedExchangeKeepsCache ==
    [][req.pc = "post" /\ req'.pc \in {"raised", "returned"} =>
           /\ req'.last = "token-failed"
           /\ req.sleeps = 0 => req'.pc = "raised"
           /\ access_token' = access_token
           /\ token_expires' = token_expires
      ]_vars

\* the refresh of an expired token failed and the expired token is still stored
C6_Witness ==
    /\ req.pc = "raised"
    /\ req.last = "token-failed"
    /\ access_token # NoneStr
    /\ token_expires # NoneVal

\* the resources a metric key is derived from
MetricSources(k) ==
    CASE k = "character_item_level" -> {"equipment"}
      [] k = "achievement_points" -> {"achievements"}
      [] k = "pvp_honor_level" -> {"pvp-summary"}
      [] k = "pvp_2v2_rating" -> {"pvp-bracket-2v2"}
      [] k = "pvp_3v3_rating" -> {"pvp-bracket-3v3"}
      [] k = "pvp_rbg_rating" -> {"pvp-bracket-rbg"}
      [] k = "pvp_wins_season" ->
           {"pvp-bracket-2v2", "pvp-bracket-3v3", "pvp-bracket-rbg"}
      [] k \in RAID_SENSOR_TYPES -> {"encounters-raids"}
      [] k = "mythicplus_weekly_best" -> {"mythic-profile"}
      [] k \in MYTHICPLUS_SENSOR_TYPES -> {"mythic-season"}
      [] OTHER -> {"profile"}

\* the values that are numbers; the others are strings or None
NumericMetrics ==
    {"character_level", "character_item_level", "achievement_points"}
        \cup PVP_SENSOR_TYPES \cup RAID_SENSOR_TYPES \cup MYTHICPLUS_SENSOR_TYPES

\* the zero value of a metric
MetricDefault(k) == IF k \in NumericMetrics THEN 0 ELSE NoneStr

\* what helper h gives for a character when every resource answers 200
Populated(h, realm, name) ==
    Extract(h, [i \in 1..Len(HelperResources(h)) |->
                   Payload(HelperResources(h)[i], realm, name)])

\* C7: a cycle in which some of a character's fetches came back empty still
\* returns a snapshot with every character and realm; in every helper that did
\* not raise, a metric whose resources all failed has its zero value and a
\* metric none of whose resources failed has the value of its payload.
C7_PartialFailure ==
    (outcome = "returned" /\ cpc = "idle") =>
        /\ DOMAIN data = CharKeys \cup {"servers", "last_update"}
        /\ DOMAIN data["servers"] = RealmsOf(characters)
        /\ \A i \in 1..Len(characters) :
             LET realm == characters[i]["realm"]
                 name == characters[i]["character_name"]
                 key == CharKey(realm, name)
                 failed == {r \in Resources : <<key, r>> \in degraded}
             IN  \A j \in 1..Len(CharHelpers) :
                    LET h == CharHelpers[j]
                        full == Populated(h, realm, name)
                    IN  (HelperEnabled(h) /\ <<key, h>> \notin degraded) =>
                           \A k \in DOMAIN full :
                              /\ k \in DOMAIN data[key]
                              /\ MetricSources(k) \cap failed = {} =>
                                     data[key][k] = full[k]
                              /\ MetricSources(k) \subseteq failed =>
                                     data[key][k] = MetricDefault(k)

\* the equipment fetch of a character failed and the cycle returned
C7_Witness ==
    /\ outcome = "returned"
    /\ cpc = "idle"
    /\ degraded = {<<"r1-a", "equipment">>}
    /\ data["r1-a"]["character_item_level"] = 0
    /\ data["r1-a"]["character_level"] = 80
    /\ data["r1-a"]["achievement_points"] = 1000

\* C8: a cycle ends by returning a snapshot with every character and every
\* realm, or by raising UpdateFailed; after UpdateFailed consumers read the
\* snapshot published before, and the timer can start the next cycle.
C8_CycleOutcome ==
    /\ [][(cpc \notin {"idle", "cancelled"} /\ cpc' = "idle") =>
             \/ /\ outcome' = "returned"
                /\ cpc = "realm_pick"
                /\ DOMAIN data' = CharKeys \cup {"servers", "last_update"}
                /\ DOMAIN data'["servers"] = RealmsOf(characters)
                /\ last_update_success'
             \/ /\ outcome' = "UpdateFailed"
                /\ data' = data
         ]_vars
    /\ [](outcome = "UpdateFailed" /\ cpc = "idle" => ENABLED StartCycle)

\* a cycle failed after another had published its snapshot
C8_Witness ==
    /\ outcome = "UpdateFailed"
    /\ cpc = "idle"
    /\ data # NoneVal
    /\ ~last_update_success

\* C9: the snapshot consumers read changes only when a cycle returns, and then
\* to that cycle's whole output: a record for every character and every realm,
\* all built by that cycle; a failed or cancelled cycle leaves it as it was.
C9_AtomicSnapshot ==
    /\ [][data' # data =>
             /\ cpc = "realm_pick"
             /\ realms_todo = {}
             /\ DOMAIN all_data = CharKeys
             /\ DOMAIN server_data = RealmsOf(characters)
             /\ data' = ("last_update" :> last_update_success)
                            @@ ("servers" :> server_data) @@ all_data
         ]_vars
    /\ [](data = NoneVal \/ data = last_returned)

\* a cycle in progress has built a record that differs from the published one
C9_Witness ==
    /\ cpc = "char_sleep"
    /\ data # NoneVal
    /\ \E key \in DOMAIN all_data : all_data[key] # data[key]

\* the resources the cycle has asked for under key
IssuedFor(key) ==
    {issued[i][2] : i \in {j \in 1..Len(issued) : issued[j][1] = key}}

\* the realm loop is over and the cycle is about to return all_data
AboutToReturn == cpc = "realm_pick" /\ realms_todo = {}

\* the metric keys helper h returns
SensorTypesOf(h) ==
    CASE h = "basic" -> BASIC_SENSOR_TYPES
      [] h = "pvp" -> PVP_SENSOR_TYPES
      [] h = "raid" -> RAID_SENSOR_TYPES
      [] h = "mythicplus" -> MYTHICPLUS_SENSOR_TYPES
      [] OTHER -> SERVER_SENSOR_TYPES

\* the configuration switch of a category, read from the entry data
CategoryOn(h) ==
    CASE h = "pvp" -> features[CONF_ENABLE_PVP]
      [] h = "raid" -> features[CONF_ENABLE_RAIDS]
      [] h = "mythicplus" -> features[CONF_ENABLE_MYTHIC_PLUS]
      [] h = "server" -> features[CONF_ENABLE_SERVER_STATUS]
      [] OTHER -> TRUE

\* C11 as claimed: when a cycle returns, it has asked for profile, equipment
\* and achievements of every character, for every resource of an enabled
\* category and for no resource of a disabled one, and no record holds a key
\* of a disabled category.
C11_FeatureGating ==
    AboutToReturn =>
        \A key \in CharKeys :
            \A h \in Range(CharHelpers) :
                IF CategoryOn(h)
                THEN Range(HelperResources(h)) \subseteq IssuedFor(key)
                ELSE /\ Range(HelperResources(h)) \cap IssuedFor(key) = {}
                     /\ SensorTypesOf(h) \cap DOMAIN all_data[key] = {}

\* C11 as amended: a disabled category has no fetch and no key; an enabled
\* category (basic always) has its first fetch issued, and all its fetches
\* unless one of them raised (failed token exchange), which ends the helper
\* before the remaining fetches.
C11_FeatureGatingUpToRaise ==
    AboutToReturn =>
        \A key \in CharKeys :
            \A h \in Range(CharHelpers) :
                IF CategoryOn(h)
                THEN /\ HelperResources(h)[1] \in IssuedFor(key)
                     /\ <<key, h>> \notin degraded =>
                            Range(HelperResources(h)) \subseteq IssuedFor(key)
                     /\ <<key, h>> \in degraded =>
                            \E n \in 1..Len(HelperResources(h)) :
                                Range(HelperResources(h)) \cap IssuedFor(key) =
                                    {HelperResources(h)[i] : i \in 1..n}
                ELSE /\ Range(HelperResources(h)) \cap IssuedFor(key) = {}
                     /\ SensorTypesOf(h) \cap DOMAIN all_data[key] = {}

\* a cycle about to return with PvP on and raids off
C11_Witness ==
    /\ AboutToReturn
    /\ features[CONF_ENABLE_PVP]
    /\ ~features[CONF_ENABLE_RAIDS]
    /\ Len(characters) = 2
    /\ \A key \in CharKeys :
          /\ "pvp-bracket-rbg" \in IssuedFor(key)
          /\ "encounters-raids" \notin IssuedFor(key)
          /\ "pvp_rbg_rating" \in DOMAIN all_data[key]

\* the distinct realm values of the configured characters
TrackedRealms ==
    {r \in {"r1", "r2"} : \E i \in 1..Len(characters) : characters[i]["realm"] = r}

\* how often the cycle has asked for resource under key
IssuedCount(key, resource) ==
    Cardinality({i \in 1..Len(issued) : issued[i] = <<key, resource>>})

\* the server part of every snapshot is keyed by exactly the tracked realms
ServersKeyedByRealms ==
    /\ AboutToReturn => DOMAIN server_data = TrackedRealms
    /\ data # NoneVal => DOMAIN data["servers"] = TrackedRealms

\* C12 as claimed: the server part is keyed by exactly the distinct realms of
\* the characters, and when a cycle returns it has issued the realm-info fetch
\* and the connected-realm fetch (which starts with its own realm request)
\* for each of them if server status is on, and no realm request if it is off.
C12_RealmFetches ==
    /\ ServersKeyedByRealms
    /\ AboutToReturn =>
          \A r \in TrackedRealms :
              IF CategoryOn("server")
              THEN IssuedCount(r, "realm") >= 2
              ELSE IssuedFor(r) = {}

\* C12 as amended: the realm-info fetch is issued for every tracked realm iff
\* server status is on; the connected-realm fetch follows unless the helper
\* raised (failed token exchange), and its connected-realm request is sent
\* only after its own realm request.
C12_RealmFetchesUpToRaise ==
    /\ ServersKeyedByRealms
    /\ AboutToReturn =>
          \A r \in TrackedRealms :
              IF CategoryOn("server")
              THEN /\ IssuedCount(r, "realm") >= 1
                   /\ <<r, "server">> \notin degraded => IssuedCount(r, "realm") = 2
                   /\ IssuedCount(r, "connected-realm") <= 1
                   /\ IssuedCount(r, "connected-realm") = 1 =>
                          IssuedCount(r, "realm") = 2
              ELSE IssuedFor(r) = {}
    /\ \A i \in 1..Len(issued) :
          issued[i][1] \in {"r1", "r2"} =>
              /\ issued[i][1] \in TrackedRealms
              /\ CategoryOn("server")

\* a cycle about to return that asked both realms for both documents
C12_Witness ==
    /\ AboutToReturn
    /\ TrackedRealms = {"r1", "r2"}
    /\ CategoryOn("server")
    /\ IssuedCount("r1", "realm") = 2
    /\ IssuedCount("r1", "connected-realm") = 1
    /\ IssuedCount("r2", "realm") = 2
    /\ IssuedCount("r2", "connected-realm") = 0
    /\ degraded = {}

\* the snapshot key of the i-th configured character
KeyAt(i) == CharKey(characters[i]["realm"], characters[i]["character_name"])

\* the position of a key in the order of the cycle: the characters in the
\* order of the list, then the realms
Rank(key) ==
    IF \E i \in 1..Len(characters) : KeyAt(i) = key
    THEN CHOOSE i \in 1..Len(characters) : KeyAt(i) = key
    ELSE Len(characters) + 1

\* the request at position n comes after the requests of the earlier
\* characters, realms last, and next to the other requests of its own key
InOrderAt(log, n) ==
    \A i \in 1..(n - 1) :
        /\ Rank(log[i][1]) <= Rank(log[n][1])
        /\ log[i][1] = log[n][1] => log[n - 1][1] = log[n][1]

\* C13: a request starts only when no request of the cycle is outstanding,
\* the requests go character by character in list order with a delay step
\* before the next character, and every character request precedes the
\* first realm request.
C13_Sequential ==
    [][/\ Len(issued') > Len(issued) => req.pc = "idle"
       /\ idx' > idx => cpc = "char_sleep" /\ req.pc = "idle"
       /\ (cpc # "realm_pick" /\ cpc' = "realm_pick") =>
              cpc \in {"char_sleep", "realm_sleep"}
       /\ Len(issued') > Len(issued) => InOrderAt(issued', Len(issued'))]_vars

\* the second character's request is outstanding after the first character's
C13_Witness ==
    /\ Len(characters) = 2
    /\ Len(issued) >= 7
    /\ issued[1][1] = KeyAt(1)
    /\ issued[Len(issued)][1] = KeyAt(2)
    /\ req.pc = "get"

\* C14: a call whose request was answered 429 and whose retry is answered 200
\* returns the document of that 200 answer, and returns once: after the
\* return the call is over and the caller takes the result.
C14_RetryDelivers ==
    [][/\ (req.pc = "get" /\ req.sleeps >= 1 /\ req'.last = "200") =>
              /\ req'.pc = "returned"
              /\ req'.result = Payload(req.resource, req.realm, req.name)
       /\ (req.pc = "returned" /\ req' # req) => req' = IdleReq]_vars

\* a call that was throttled once has returned the document of its retry
C14_Witness ==
    /\ req.pc = "returned"
    /\ req.sleeps = 1
    /\ req.gets = 2
    /\ req.last = "200"
    /\ req.result = Payload(req.resource, req.realm, req.name)
    /\ req.result # EmptyDict

\* C15: a setup whose credential exchange failed or whose test call returned
\* an empty result ends not ready, with no data of the entry under the
\* domain, no platform forwarded and the test client's session closed; the
\* entry data is stored and the platform forwarded only after a test call
\* that returned a non-empty result.
C15_SetupGate ==
    LET tested == setup.pc \in {"ready", "not_ready"}
        passed == setup.test.kind = "returned" /\ setup.test.value # EmptyDict
        stored == \E e \in setup.domain : e.id = setup.entry
    IN  /\ tested => setup.session = "closed"
        /\ (tested /\ ~passed) =>
               /\ setup.pc = "not_ready"
               /\ ~stored
               /\ setup.entry \notin setup.forwarded
        /\ (tested /\ passed) =>
               /\ setup.pc = "ready"
               /\ stored
               /\ setup.entry \in setup.forwarded
        /\ setup.pc = "testing" => ~stored /\ setup.entry \notin setup.forwarded
        /\ \A e \in setup.domain : e.id \in setup.forwarded /\ e.region # "us"
        /\ \A id \in setup.forwarded : \E e \in setup.domain : e.id = id

\* a setup refused after a failed credential exchange, while an earlier
\* entry stays set up
C15_Witness ==
    /\ setup.pc = "not_ready"
    /\ setup.test.kind = "raised"
    /\ setup.session = "closed"
    /\ setup.domain # {}
    /\ \A e \in setup.domain : e.id # setup.entry

(***************************************************************************)
(* The extraction parts, stated over the documents.                        *)
(***************************************************************************)
\* the sum of f over the set S
RECURSIVE SumSet(_, _)
SumSet(S, f) ==
    IF S = {} THEN 0
    ELSE LET x == CHOOSE y \in S : TRUE IN f[x] + SumSet(S \ {x}, f)

\* the helper under examination has returned the record of its documents
Extracted(h) == ext.pc = "output" /\ ext.kind = h

\* where the modes of the current expansion sit in an encounter document
ContributingModes(doc) ==
    IF "expansions" \notin DOMAIN doc THEN {}
    ELSE LET exps == doc["expansions"]
         IN  UNION {UNION {{<<e, i, m>> :
                               m \in 1..Len(exps[e]["instances"][i]["modes"])} :
                           i \in 1..Len(exps[e]["instances"])} :
                    e \in {x \in 1..Len(exps) :
                              exps[x]["expansion"]["name"] = "The War Within"}}

ModeAt(doc, t) == doc["expansions"][t[1]]["instances"][t[2]]["modes"][t[3]]

\* the tier a difficulty name selects: the first keyword it contains
TierOf(difficulty) ==
    LET kw == TierKeywords(difficulty)
    IN  IF "raid finder" \in kw THEN "lfr"
        ELSE IF "normal" \in kw THEN "normal"
        ELSE IF "heroic" \in kw THEN "heroic"
        ELSE IF "mythic" \in kw THEN "mythic"
        ELSE "none"

\* the completed counts of the contributing modes whose tier is in tiers
TierSum(doc, tiers) ==
    SumSet({t \in ContributingModes(doc) :
               TierOf(ModeAt(doc, t)["difficulty"]["name"]) \in tiers},
           [t \in ContributingModes(doc) |->
               ModeAt(doc, t)["progress"]["completed_count"]])

\* C16: for every encounter document the raid total is the sum of the four
\* tiers, whatever the difficulty names of the modes.
C16_TotalIsSumOfTiers ==
    Extracted("raid") =>
        ext.output["raid_kills_total"] =
            ext.output["raid_progress_lfr"] + ext.output["raid_progress_normal"]
            + ext.output["raid_progress_heroic"] + ext.output["raid_progress_mythic"]

SeasonRuns(season_data) ==
    IF "best_runs" \in DOMAIN season_data THEN season_data["best_runs"] ELSE <<>>

\* the best runs of the current period of a profile document
WeeklyRuns(profile) ==
    IF "current_period" \in DOMAIN profile
       /\ "best_runs" \in DOMAIN profile["current_period"]
    THEN profile["current_period"]["best_runs"]
    ELSE <<>>

IsTimed(run) ==
    "is_completed_within_time" \in DOMAIN run /\ run["is_completed_within_time"]

\* the largest keystone level of runs, 0 for none
BestLevel(runs) ==
    IF runs = <<>> THEN 0
    ELSE CHOOSE l \in {runs[i]["keystone_level"] : i \in 1..Len(runs)} :
             \A i \in 1..Len(runs) : runs[i]["keystone_level"] <= l

\* C18: best_run is the largest keystone level of the season's best runs (0
\* for none), runs_completed their number, runs_timed the number of timed
\* ones, score the sum of level x 125 for timed and level x 100 for other
\* runs; weekly_best is the largest keystone level of the profile's current
\* period, whatever the season document is.
C18_MythicPlusExtraction ==
    Extracted("mythicplus") =>
        LET profile == ext.input[1]
            runs == SeasonRuns(ext.input[2])
            all == 1..Len(runs)
            timed == {i \in all : IsTimed(runs[i])}
            levels == [i \in all |-> runs[i]["keystone_level"]]
            out == ext.output
        IN  /\ out["mythicplus_best_run"] = BestLevel(runs)
            /\ out["mythicplus_runs_completed"] = Len(runs)
            /\ out["mythicplus_runs_timed"] = Cardinality(timed)
            /\ out["mythicplus_score"] =
                   125 * SumSet(timed, levels) + 100 * SumSet(all \ timed, levels)
            /\ out["mythicplus_weekly_best"] = BestLevel(WeeklyRuns(profile))
            /\ \A sd \in SeasonDocs :
                   Extract("mythicplus", <<profile, sd>>)["mythicplus_weekly_best"]
                       = out["mythicplus_weekly_best"]

\* a timed 10 and an untimed 5 in the season, 7 and 9 in the week
C18_Witness ==
    /\ Extracted("mythicplus")
    /\ SeasonRuns(ext.input[2])
           = <<[keystone_level |-> 10, is_completed_within_time |-> TRUE],
               [keystone_level |-> 5, is_completed_within_time |-> FALSE]>>
    /\ Len(WeeklyRuns(ext.input[1])) = 2
    /\ ext.output = [mythicplus_score |-> 1750, mythicplus_best_run |-> 10,
                     mythicplus_runs_completed |-> 2, mythicplus_runs_timed |-> 1,
                     mythicplus_weekly_best |-> 9]

\* the rating of a bracket document, 0 when it has none
RatingOf(d) == IF "rating" \in DOMAIN d THEN d["rating"] ELSE 0

\* the season won count of a bracket document, 0 when it has none
WonOf(d) ==
    IF "season_match_statistics" \in DOMAIN d
       /\ "won" \in DOMAIN d["season_match_statistics"]
    THEN d["season_match_statistics"]["won"]
    ELSE 0

\* C19: each bracket rating is the rating of its own bracket document, 0
\* when that document is empty or has no rating; the honor level is that of
\* the summary, 0 when it has none.
C19_PvpRatings ==
    Extracted("pvp") =>
        /\ ext.output["pvp_2v2_rating"] = RatingOf(ext.input[2])
        /\ ext.output["pvp_3v3_rating"] = RatingOf(ext.input[3])
        /\ ext.output["pvp_rbg_rating"] = RatingOf(ext.input[4])
        /\ ext.output["pvp_honor_level"] =
               IF "honor_level" \in DOMAIN ext.input[1]
               THEN ext.input[1]["honor_level"] ELSE 0

\* three different bracket documents: rated, rated lower, without rating
C19_Witness ==
    /\ Extracted("pvp")
    /\ ext.input = <<[honor_level |-> 5],
                     [rating |-> 1500, season_match_statistics |-> [won |-> 3]],
                     [season_match_statistics |-> [won |-> 7]],
                     [rating |-> 1000]>>
    /\ ext.output["pvp_2v2_rating"] = 1500
    /\ ext.output["pvp_3v3_rating"] = 0
    /\ ext.output["pvp_rbg_rating"] = 1000
    /\ ext.output["pvp_honor_level"] = 5

\* C20 as claimed: the season wins are the sum of the won counts of the
\* three bracket documents.
C20_WinsOverAllBrackets ==
    Extracted("pvp") =>
        ext.output["pvp_wins_season"] =
            WonOf(ext.input[2]) + WonOf(ext.input[3]) + WonOf(ext.input[4])

\* C20 as amended: the season wins are the sum of the won counts of the
\* bracket documents that carry a rating; a document without a rating adds
\* nothing.
C20_WinsOverRatedBrackets ==
    Extracted("pvp") =>
        ext.output["pvp_wins_season"] =
            SumSet({i \in 2..4 : "rating" \in DOMAIN ext.input[i]},
                   [i \in 2..4 |-> WonOf(ext.input[i])])

\* a bracket document with wins and no rating next to a rated one
C20_Witness ==
    /\ Extracted("pvp")
    /\ ext.input[2] = [rating |-> 1500, season_match_statistics |-> [won |-> 3]]
    /\ ext.input[3] = [rating |-> 0, season_match_statistics |-> [won |-> 2]]
    /\ ext.input[4] = [season_match_statistics |-> [won |-> 7]]
    /\ ext.output["pvp_wins_season"] = 5

\* the item levels of the equipped items that carry one
QualifyingLevels(equipment) ==
    IF "equipped_items" \notin DOMAIN equipment THEN <<>>
    ELSE LET items == equipment["equipped_items"]
             has == SelectSeq(items, LAMBDA item : "item_level" \in DOMAIN item)
         IN  [i \in 1..Len(has) |-> has[i]["item_level"]]

\* C21: character_item_level is the average item level of the equipped
\* items that carry one, rounded to an integer: 0 when there is none, else
\* the integer nearest to sum / count, between the least and the greatest
\* qualifying level; 200, 210, 190 give 200.
C21_ItemLevel ==
    (Extracted("basic") /\ ext.output # EmptyDict) =>
        LET levels == QualifyingLevels(ext.input[2])
            n == Len(levels)
            total == SumSet(1..n, levels)
            il == ext.output["character_item_level"]
        IN  /\ n = 0 => il = 0
            /\ n > 0 =>
                  /\ 2 * (il * n - total) <= n
                  /\ 2 * (total - il * n) <= n
                  /\ \E i \in 1..n : levels[i] <= il
                  /\ \E i \in 1..n : levels[i] >= il
            /\ levels = <<200, 210, 190>> => il = 200

\* the three item levels of the example around an item without a level
C21_Witness ==
    /\ Extracted("basic")
    /\ ext.input[2] = [equipped_items |->
                          <<[item_level |-> 200], [name |-> "Tabard"],
                            [item_level |-> 205]>>]
    /\ ext.output["character_item_level"] = 202

\* C22: the character_money metric of a record is the copper amount of the
\* character divided by 10000, rounded down: 12345 gives 1, 0 gives 0.
C22_Gold ==
    (Extracted("basic") /\ "money" \in DOMAIN ext.input[1]) =>
        /\ "character_money" \in DOMAIN ext.output
        /\ ext.output["character_money"] = ext.input[1]["money"] \div 10000

\* the slug the API knows a realm by: lower case, spaces replaced by
\* hyphens, apostrophes removed, diacritics folded to base letters
ApiSlug(realm) ==
    CASE realm \in {"Area 52", "area 52", "area-52"} -> "area-52"
      [] realm \in {"Kel'Thuzad", "kelthuzad"} -> "kelthuzad"
      [] realm \in {"Aegwynn", "aegwynn"} -> "aegwynn"
      [] OTHER -> "pozzo-delleternita"

\* C23: every fetcher puts the API slug of the realm name into its path, so
\* that two realm names with the same slug give the same path.
C23_RealmSlug ==
    (cpc = "path" /\ ext.pc = "output") =>
        /\ ext.output["path"] =
               Endpoint(ext.kind, ApiSlug(ext.input[1]), Lower(ext.input[2]))
        /\ \A other \in RealmNames :
               ApiSlug(other) = ApiSlug(ext.input[1]) =>
                   EndpointOf(ext.kind, other, ext.input[2]) = ext.output["path"]

\* C24: every GET the gateway sends, the retry after a 429 included, carries
\* the bearer token the token manager gave for that attempt (the cached
\* token while it is valid, else the one just obtained), the locale
\* parameter of the client and the namespace parameter of the fetcher.
C24_BearerAndLocale ==
    [][(req.pc # "get" /\ req'.pc = "get") =>
          /\ req'.bearer = access_token'
          /\ req'.bearer # NoneStr
          /\ req.pc = "enter" => TokenCached /\ req'.bearer = access_token
          /\ req.pc = "post" => token_expires' = <<ExpiryOf(req'.token_body, now)>>
          /\ req.pc \in {"enter", "post"}
          /\ DOMAIN req'.params = {"namespace", "locale"}
          /\ req'.params["locale"] = ClientLocale
          /\ req'.params["namespace"] = NamespaceOf(req.resource)]_vars

\* the retry after a 429 is out with a token other than the first attempt's
C24_Witness ==
    /\ req.pc = "get"
    /\ req.sleeps = 1
    /\ req.gets = 2
    /\ req.bearer = "t2"
    /\ access_token = "t2"
    /\ "locale" \in DOMAIN req.params

\* the snapshot value holds an empty record for every tracked character and
\* an empty record for every realm of the server group
AllRecordsEmpty(value) ==
    /\ \A i \in 1..Len(characters) : value[KeyAt(i)] = EmptyDict
    /\ DOMAIN value["servers"] = TrackedRealms
    /\ \A r \in TrackedRealms : value["servers"][r] = EmptyDict

\* C25: while the token exchange fails for every request, a poll cycle never
\* ends in UpdateFailed: it returns a snapshot whose character records and
\* server records are all empty, and every fetch a helper issues attempts
\* the token exchange again and is answered by the helper's except branch.
C25_TokenOutage ==
    /\ [](outcome \in {"none", "returned"})
    /\ [](outcome = "returned" => AllRecordsEmpty(data))
    /\ [][/\ req.pc = "enter" => req'.pc = "post"
          /\ req.pc = "post" => req'.pc = "raised"
          /\ req.pc = "raised" => req'.pc = "idle"]_req

\* a cycle over two characters with every category on has returned
C25_Witness ==
    /\ outcome = "returned"
    /\ cpc = "idle"
    /\ Len(characters) = 2
    /\ \A f \in FeatureFlags : features[f]
    /\ AllRecordsEmpty(data)
    /\ DOMAIN data["servers"] # {}

\* the keys realm-name of a list of accepted characters
KeysOf(cs) == {cs[i]["realm"] \o "-" \o cs[i]["character_name"] : i \in 1..Len(cs)}

\* no two entries of the list have the same key
DistinctKeys(cs) == Cardinality(KeysOf(cs)) = Len(cs)

\* the record of tracked character i when every fetch is answered
RecordOf(i) ==
    LET realm == characters[i]["realm"]
        name == characters[i]["character_name"]
    IN  CharacterData([h \in Range(CharHelpers) |->
                          IF CategoryOn(h) THEN Populated(h, realm, name)
                          ELSE EmptyDict])

EntryDataComplete(d) ==
    {CONF_CLIENT_ID, CONF_CLIENT_SECRET, CONF_REGION, "available_realms",
     CONF_CHARACTERS} \cup FeatureFlags \subseteq DOMAIN d

\* C28: the wizard creates an entry only with validated credentials, the
\* submitted feature flags and at least one validated and accepted
\* character; the credentials step is left only by a successful validation,
\* and a failed one shows the form again with an error and stores nothing;
\* a failed character validation adds no character; the final step aborts
\* with no_characters on an empty list.
C28_WizardOrdering ==
    /\ [](flow.result = "create_entry" =>
            /\ EntryDataComplete(flow.data)
            /\ Len(flow.data[CONF_CHARACTERS]) >= 1
            /\ KeysOf(flow.data[CONF_CHARACTERS]) \subseteq flow.validated)
    /\ [](flow.step # "user" => CONF_CLIENT_ID \in DOMAIN flow.data)
    /\ [](flow.step \in {"character_confirm", "done"} =>
            FeatureFlags \subseteq DOMAIN flow.data /\ flow.characters # <<>>)
    /\ [](\A configured \in BOOLEAN :
            StepFinal([flow EXCEPT !.characters = <<>>], configured).result
                = "abort:no_characters")
    /\ [][/\ (flow.step = "user" /\ flow.pc = "validating" /\ flow'.pc = "form") =>
               IF req.pc = "returned" /\ "realms" \in DOMAIN req.result
               THEN flow'.step = "features" /\ flow'.errors = "none"
               ELSE /\ flow'.step = "user"
                    /\ flow'.errors = "cannot_connect"
                    /\ flow'.data = flow.data
          /\ (flow.step = "user" /\ flow'.step # "user") =>
               /\ flow.pc = "validating"
               /\ req.pc = "returned"
               /\ "realms" \in DOMAIN req.result
          /\ (flow.step = "character" /\ flow.pc = "validating" /\ flow'.pc = "form"
                 /\ flow'.verdict # "info") =>
               /\ flow'.characters = flow.characters
               /\ flow'.step = "character"
               /\ flow'.errors \in {"character_not_found", "cannot_connect"}
          /\ Len(flow'.characters) > Len(flow.characters) =>
               /\ flow.pc = "validating"
               /\ flow'.verdict = "info"
               /\ "name" \in DOMAIN req.result]_flow

\* an entry with two characters is created after a validation has failed
C28_Witness ==
    /\ flow.result = "create_entry"
    /\ Len(flow.data[CONF_CHARACTERS]) = 2
    /\ faults = 1

\* validate_character is over
ValidationOver ==
    flow.step = "character" /\ flow.pc = "validating" /\ flow'.pc = "form"

\* the outcomes of validate_character are three, and the client is closed
ThreeOutcomes ==
    ValidationOver =>
        /\ flow'.verdict \in {"info", "CharacterNotFound", "CannotConnect"}
        /\ flow'.session = "closed"
        /\ (req.pc = "returned" /\ "name" \in DOMAIN req.result) =>
               flow'.verdict = "info"
        /\ (req.pc = "returned" /\ req.last # "token-failed"
                /\ "name" \notin DOMAIN req.result) =>
               flow'.verdict = "CharacterNotFound"

\* C29 as stated: besides the three outcomes, every failed token exchange
\* gives CannotConnect unless its message contains "not found".
C29_Classification ==
    [][/\ ThreeOutcomes
       /\ (ValidationOver /\ req.last = "token-failed") =>
              flow'.verdict = IF ContainsNotFound(flow'.message)
                              THEN "CharacterNotFound" ELSE "CannotConnect"]_flow

\* C29: validate_character ends in one of three outcomes and closes its
\* client on each: a profile with a name gives the character info; an empty
\* or name-less document gives CharacterNotFound; a token exchange that
\* fails on the first attempt gives CannotConnect unless its message
\* contains "not found"; a token exchange that fails in the retry after a
\* 429 is an empty document and gives CharacterNotFound.
C29_ClassificationFirstAttempt ==
    [][/\ ThreeOutcomes
       /\ (ValidationOver /\ req.pc = "raised") =>
              /\ req.last = "token-failed"
              /\ flow'.verdict = IF ContainsNotFound(flow'.message)
                                 THEN "CharacterNotFound" ELSE "CannotConnect"
       /\ (ValidationOver /\ req.pc = "returned" /\ req.last = "token-failed") =>
              flow'.verdict = "CharacterNotFound"]_flow

\* the token exchange of a retry failed with a status message and the form
\* says the character was not found
C29_Witness ==
    /\ flow.step = "character"
    /\ flow.verdict = "CharacterNotFound"
    /\ flow.message = "Failed to get access token: 401"
    /\ flow.session = "closed"

\* the groups helper h returns for the tracked characters when every fetch
\* is answered
PopulatedGroups(h) ==
    {Populated(h, c["realm"], c["character_name"]) : c \in TrackedCharacters}

\* C27: the group a character helper returns shares no key with a group of
\* another helper, so merging them overwrites nothing and gives the same
\* record in either order.
C27_DisjointGroups ==
    \A h \in Range(CharHelpers) :
        Extracted(h) =>
            \A other \in Range(CharHelpers) \ {h} :
                \A group \in PopulatedGroups(other) :
                    /\ DOMAIN ext.output \cap DOMAIN group = {}
                    /\ Merge(ext.output, group) = Merge(group, ext.output)
                    /\ \A k \in DOMAIN ext.output :
                          Merge(ext.output, group)[k] = ext.output[k]

\* a populated basic group, to be merged with the populated groups of the
\* other helpers
C27_Witness ==
    /\ Extracted("basic")
    /\ "character_level" \in DOMAIN ext.output
    /\ \A other \in {"pvp", "raid", "mythicplus"} :
          \E group \in PopulatedGroups(other) : Cardinality(DOMAIN group) = 5

\* the counter goes up by one with each response and changes otherwise only
\* by a reset to 0 in the check, no earlier than a window after the last
\* reset; a counter at the limit delays the request, which is sent all the
\* same (LimiterBusy stands for the calls of a busy hour)
CounterSteps ==
    /\ (limiter.pc = "get" /\ limiter'.status \in ResponseStatuses) =>
           limiter'.request_count = limiter.request_count + 1
    /\ (limiter.pc = "get" /\ limiter'.status \in TransportErrors) =>
           limiter'.request_count = limiter.request_count
    /\ (limiter'.request_count # limiter.request_count /\ limiter.pc # "idle") =>
           \/ limiter.pc = "get" /\ limiter'.request_count = limiter.request_count + 1
           \/ /\ limiter.pc = "check"
              /\ limiter'.request_count = 0
              /\ limiter.clock - limiter.last_request_reset >= RATE_WINDOW
    /\ limiter'.last_request_reset # limiter.last_request_reset =>
           /\ limiter.pc = "check"
           /\ limiter.clock - limiter.last_request_reset >= RATE_WINDOW
           /\ limiter'.last_request_reset = limiter.clock
           /\ limiter'.request_count = 0
    /\ limiter.pc = "check" =>
           limiter'.pc = IF /\ limiter.request_count >= RATE_LIMIT
                            /\ limiter.clock - limiter.last_request_reset < RATE_WINDOW
                         THEN "delay" ELSE "token"
    /\ limiter.pc = "delay" =>
           /\ limiter'.pc = "token"
           /\ limiter'.clock = Min(limiter.clock + RATE_SLEEP, MaxClock)
    /\ (limiter.pc = "token" /\ limiter'.status # "token-failed") =>
           limiter'.pc = "get"

\* C30 as stated: besides the steps of the counter, a request that ends in
\* a transport error has not been counted.
C30_RateLimiter ==
    [][/\ CounterSteps
       /\ (limiter'.pc = "returned" /\ limiter'.status \in TransportErrors) =>
              limiter'.request_count = limiter.at_send]_limiter

\* C30: the counter goes up exactly once for every response received (any
\* status) and not for a request that fails before a response arrives; a
\* response whose body then fails in transport has been counted; the counter
\* is reset to 0 only when 3600 s have passed since the last reset; a
\* request that finds the counter at 35000 or more is delayed 60 s and then
\* sent.
C30_RateLimiterPerResponse ==
    [][/\ CounterSteps
       /\ (limiter.pc = "get" /\ limiter'.pc = "returned"
              /\ limiter'.status \in TransportErrors) =>
              limiter'.request_count = limiter.at_send
       /\ (limiter.pc = "body" /\ limiter'.pc = "returned") =>
              limiter'.request_count = limiter.at_send + 1]_limiter

\* a delayed request has been sent and answered with the counter beyond
\* the limit
C30_Witness ==
    /\ limiter.pc = "returned"
    /\ limiter.delayed
    /\ limiter.status = "404"
    /\ limiter.request_count = RATE_LIMIT + 1

====
